---- MODULE Spec2Model ----
(***************************************************************************)
(* Seeded star-system generator (src/src/world/SystemGenerator.js), the    *)
(* weighted star-class sampler (src/src/world/Stars.js, StarClusters.js)   *)
(* and the Keplerian propagator (src/src/world/Planet.js).                 *)
(*                                                                         *)
(* Number representation.  A JavaScript integer-valued number n in the     *)
(* range of the 32-bit operators is the pair <<hi, lo>> with               *)
(* n = hi * 65536 + lo and lo \in 0..65535, so that every intermediate     *)
(* value stays inside the range of the model checker's integers.  A draw   *)
(* of the stream is the numerator n of n / 2^32 in the same form.          *)
(* Non-integer quantities of the generator are fixed-point integers in     *)
(* units of 1/1000 (hue and the planet seed in units of 1/10).             *)
(***************************************************************************)
EXTENDS Integers, Sequences, FiniteSets, TLC

\* ------------------------------------------------------------------------
\* Bounds of the model
\* ------------------------------------------------------------------------
MaxDraws == 9
MaxNow == 1
\* points of the star field that are followed
MaxStars == 3
\* calls of Planet.update that are followed, over all planets
MaxUpdates == 2
\* length of the strings that are hashed
MaxStrLen == 3

\* ------------------------------------------------------------------------
\* Let(e, F): F applied to the value of e, with e evaluated once (the value
\* of a JavaScript const or let at the point where it is assigned)
\* ------------------------------------------------------------------------
Let(e, F(_)) == CHOOSE r \in { F(v) : v \in {e} } : TRUE

\* ------------------------------------------------------------------------
\* 32-bit words
\* ------------------------------------------------------------------------
Half == 65536

Zero == <<0, 0>>

FromInt(n) == <<n \div Half, n % Half>>

\* ToUint32: the value modulo 2^32, as seed >>> 0 and x >>> 0 compute it
ToUint32(n) == <<n[1] % Half, n[2]>>

\* ToInt32: the value modulo 2^32 read as a signed word, which is what every
\* ^= and << leaves in x
ToInt32(n) == <<((n[1] + 32768) % Half) - 32768, n[2]>>

\* exclusive or of two bits, of two 4-bit values (tabulated), and of two
\* 16-bit values
XorBit(a, b) == (a + b) % 2

XorNibble ==
  [a \in 0..15 |-> [b \in 0..15 |->
     XorBit(a % 2, b % 2)
     + (2 * XorBit((a \div 2) % 2, (b \div 2) % 2))
     + (4 * XorBit((a \div 4) % 2, (b \div 4) % 2))
     + (8 * XorBit(a \div 8, b \div 8))]]

XorBits(a, b) ==
  XorNibble[a % 16][b % 16]
  + (16 * XorNibble[(a \div 16) % 16][(b \div 16) % 16])
  + (256 * XorNibble[(a \div 256) % 16][(b \div 256) % 16])
  + (4096 * XorNibble[a \div 4096][b \div 4096])

\* a ^ b
Xor(a, b) ==
  Let(<<ToUint32(a), ToUint32(b)>>,
      LAMBDA u : <<((XorBits(u[1][1], u[2][1]) + 32768) % Half) - 32768,
                   XorBits(u[1][2], u[2][2])>>)

\* a << k, for 0 < k < 16
Shl(a, k) ==
  Let(<<a[1] % Half, a[2] * (2 ^ k)>>,
      LAMBDA u : <<(((((u[1] * (2 ^ k)) + (u[2] \div Half)) % Half) + 32768) % Half) - 32768,
                   u[2] % Half>>)

\* a >>> k, for 16 <= k < 32
UShr(a, k) == <<0, (a[1] % Half) \div (2 ^ (k - 16))>>

\* Math.imul(a, 16777619): 16777619 = 2^24 + 403
FnvPrimeLow == 403

ImulPrime(a) ==
  Let(<<((a[1] % Half) * FnvPrimeLow) + ((a[2] % 256) * 256), a[2] * FnvPrimeLow>>,
      LAMBDA u : <<((((u[1] + (u[2] \div Half)) % Half) + 32768) % Half) - 32768,
                   u[2] % Half>>)

\* ------------------------------------------------------------------------
\* stringToSeed, makeRng
\* ------------------------------------------------------------------------
\* 2166136261 = 33052 * 65536 + 40389
FnvOffsetHi == 33052
FnvOffsetLo == 40389

\* the loop of stringToSeed from index i on
RECURSIVE FnvFold(_, _, _)
FnvFold(h, str, i) ==
  IF i > Len(str) THEN h
  ELSE Let(ImulPrime(Xor(h, <<0, str[i]>>)), LAMBDA n : FnvFold(n, str, i + 1))

\* the fold without the final >>> 0
stringToSeedSigned(str) == FnvFold(<<FnvOffsetHi, FnvOffsetLo>>, str, 1)

\* a string is the sequence of its UTF-16 code units (charCodeAt)
stringToSeed(str) == ToUint32(FnvFold(<<FnvOffsetHi, FnvOffsetLo>>, str, 1))

DefaultSeed == 123456789

\* let x = seed >>> 0, without the guard
makeRngUnguarded(seed) == ToUint32(seed)

\* let x = (seed >>> 0) || 123456789
makeRng(seed) ==
  IF ToUint32(seed) = Zero THEN FromInt(DefaultSeed) ELSE ToUint32(seed)

\* a >> 17: the shift that keeps the sign
SShr17(a) == FromInt(ToInt32(a)[1] \div 2)

\* x ^= x << 13; x ^= x >> 17; x ^= x << 5
rngStepSignedShift(x) ==
  Let(Xor(x, Shl(x, 13)), LAMBDA a :
    Let(Xor(a, SShr17(a)), LAMBDA b :
      Xor(b, Shl(b, 5))))

\* x ^= x << 13; x ^= x >>> 17; x ^= x << 5
rngStep(x) ==
  Let(Xor(x, Shl(x, 13)), LAMBDA a :
    Let(Xor(a, UShr(a, 17)), LAMBDA b :
      Xor(b, Shl(b, 5))))

\* x / 4294967296, without the unsigned reading
rngValueSigned(x) == x

\* numerator of (x >>> 0) / 4294967296
rngValue(x) == ToUint32(x)

\* the states of the stream after 1..k further draws
RECURSIVE rngSeq(_, _)
rngSeq(x, k) ==
  IF k = 0 THEN <<>>
  ELSE Let(rngStep(x), LAMBDA y : <<y>> \o rngSeq(y, k - 1))

\* 0 <= n / 2^32 < 1
InUnit(n) == n[1] \in 0..(Half - 1) /\ n[2] \in 0..(Half - 1)

\* ------------------------------------------------------------------------
\* makeRandUtils: rand, randInt, choice.  d is the numerator of the value the
\* call of rng() returned; min and max are fixed-point integers.
\* ------------------------------------------------------------------------
\* floor(range * d / 2^32), for 0 <= range < 32768
MulDraw(range, d) == ((range * d[1]) + ((range * d[2]) \div Half)) \div Half

\* rng() * (max - min) + min
rand(d, min, max) == min + MulDraw(max - min, d)

\* Math.floor(rand(min, max)): the upper end is never produced
randIntExclusive(d, min, max) == min + MulDraw(max - min, d)

\* Math.floor(rand(min, max + 1)), min and max integers
randInt(d, min, max) == min + MulDraw((max + 1) - min, d)

\* arr[randInt(0, arr.length - 1)]: the index chosen in a pool of len entries
choice(d, len) == randInt(d, 0, len - 1)

Abs(v) == IF v < 0 THEN 0 - v ELSE v
Min(a, b) == IF a < b THEN a ELSE b
Max(a, b) == IF a > b THEN a ELSE b
Clamp01(v) == Max(0, Min(1000, v))

\* Math.round of v / 1000, v >= 0
Round1000(v) == (v + 500) \div 1000

\* hslToHex(h, s, l): h in 1/10 degree, s and l in 1/1000
hslRgb(h, c, xx) ==
  IF h < 600 THEN <<c, xx, 0>>
  ELSE IF h < 1200 THEN <<xx, c, 0>>
  ELSE IF h < 1800 THEN <<0, c, xx>>
  ELSE IF h < 2400 THEN <<0, xx, c>>
  ELSE IF h < 3000 THEN <<xx, 0, c>>
  ELSE <<c, 0, xx>>

hslToHex(hIn, sIn, lIn) ==
  Let(<<hIn % 3600, Clamp01(sIn), Clamp01(lIn)>>, LAMBDA hsl :
    Let(((1000 - Abs((2 * hsl[3]) - 1000)) * hsl[2]) \div 1000, LAMBDA c :
      Let(<<hslRgb(hsl[1], c,
                   (c * (1000 - Abs((((hsl[1] % 1200) * 10) \div 6) - 1000))) \div 1000),
            hsl[3] - (c \div 2)>>,
          LAMBDA v : (Round1000((v[1][1] + v[2]) * 255) * 65536)
                     + (Round1000((v[1][2] + v[2]) * 255) * 256)
                     + Round1000((v[1][3] + v[2]) * 255))))

\* floor of the square root, by Newton's iteration from above
RECURSIVE SqrtIter(_, _)
SqrtIter(v, g) ==
  Let((g + (v \div g)) \div 2, LAMBDA n : IF n >= g THEN g ELSE SqrtIter(v, n))

ISqrt(v) == IF v < 2 THEN v ELSE SqrtIter(v, v)

\* ------------------------------------------------------------------------
\* randomStar: S is the sequence of stream states after each further draw
\* ------------------------------------------------------------------------
randomStar(S) ==
  LET hue == rand(rngValue(S[1]), 200, 650)
      saturation == rand(rngValue(S[2]), 600, 950)
      lightness == rand(rngValue(S[3]), 500, 700)
      radius == rand(rngValue(S[4]), 7000, 16000)
  IN  [ radius |-> radius,
        color |-> hslToHex(hue, saturation, lightness),
        lightColor |-> hslToHex(hue, 900, 750),
        lightIntensity |-> 1200 + Round1000(((radius * radius) \div 1000) * 12) ]

StarDraws == 4

\* sizes of the syllable pools of randomName
SyllA == 26
SyllB == 9
SyllC == 15

TwoPiMilli == 6283

\* ------------------------------------------------------------------------
\* One iteration of the loop of randomPlanetConfigs, for planet index i
\* (0-based), stream state x and orbit cursor orbit.  Returns the planet
\* pushed, the stream state and cursor it leaves, and the draws that decided
\* the planet's type, ring and atmosphere.  S is the sequence of the stream
\* states after each of the draws the iteration can make.
\* ------------------------------------------------------------------------
NoDraw == <<-1, 0>>

\* line 90 with the threshold 0.7: ice on most draws
TypeOfQuarterIcy(d) == IF rand(d, 0, 1000) < 700 THEN "ice" ELSE "rocky"

\* line 90: rand(0, 1) < 0.3 ? 'ice' : 'rocky'
TypeOfQuarter(d) == IF rand(d, 0, 1000) < 300 THEN "ice" ELSE "rocky"

TypeOfOuter(d) == IF rand(d, 0, 1000) < 600 THEN "gas" ELSE "ice"

\* only the first planet forced rocky
planetTypeOfFirstOnly(i, d) ==
  IF i < 1 THEN "rocky"
  ELSE IF i < 4 THEN TypeOfQuarter(d)
  ELSE TypeOfOuter(d)

\* lines 82-103: the type of planet i, given the type draw
planetTypeOf(i, d) ==
  IF i < 2 THEN "rocky"
  ELSE IF i < 4 THEN TypeOfQuarter(d)
  ELSE TypeOfOuter(d)

\* rand(-3, 3): a step that can move the cursor inwards
OrbitAdvanceNoGap(d, radius) == rand(d, 0 - 3000, 3000)

\* rand(6, 12) + radius * 1.5
OrbitAdvance(d, radius) == rand(d, 6000, 12000) + ((radius * 3) \div 2)

MaxPlanetDraws == 28

\* line 146: ringChance
ringChanceOf(planetType) == IF planetType = "gas" THEN 400 ELSE 150

\* line 147 without the test of the radius
hasRingAnySize(planetType, d, radius) ==
  rand(d, 0, 1000) < ringChanceOf(planetType)

\* line 147: rand(0, 1) < ringChance && radius > 1.2
hasRingOf(planetType, d, radius) ==
  rand(d, 0, 1000) < ringChanceOf(planetType) /\ radius > 1200

\* line 165 with the threshold 0.5
rockyAtmosphereHalf(planetType, d) ==
  planetType = "rocky" /\ rand(d, 0, 1000) < 500

\* line 165: planetType === 'rocky' && rand(0, 1) < 0.3
rockyAtmosphere(planetType, d) ==
  planetType = "rocky" /\ rand(d, 0, 1000) < 300

\* line 138 with rand(0.0, 0.99)
eccentricityWide(d) == Max(0, Min(990, rand(d, 0, 990)))

\* line 138: Math.max(0, Math.min(0.45, rand(0.0, 0.35)))
eccentricityOf(d) == Max(0, Min(450, rand(d, 0, 350)))

\* maxOrbit compared with the orbit of the planet, before the advance
maxOrbitOfPlanets(orbit, newOrbit, maxOrbit) ==
  IF orbit > maxOrbit THEN orbit ELSE maxOrbit

\* line 196: if (orbit > maxOrbit) maxOrbit = orbit, after orbit advanced
maxOrbitAfter(orbit, newOrbit, maxOrbit) ==
  IF newOrbit > maxOrbit THEN newOrbit ELSE maxOrbit

planetDraws(i, S, orbit, maxOrbit) ==
  LET D(k) == rngValue(S[k])
      \* randomName
      extra == IF rand(D(4), 0, 1000) < 300 THEN 1 ELSE 0
      name == IF extra = 1
              THEN <<choice(D(1), SyllA), choice(D(2), SyllB),
                     choice(D(3), SyllC), choice(D(5), SyllC)>>
              ELSE <<choice(D(1), SyllA), choice(D(2), SyllB),
                     choice(D(3), SyllC)>>
      k0 == 4 + extra
      \* let radius = rand(0.4, 1.8) is drawn for every planet, then replaced
      typeDraw == IF i < 2 THEN NoDraw ELSE D(k0 + 2)
      planetType == planetTypeOf(i, typeDraw)
      k1 == IF i < 2 THEN k0 + 2 ELSE k0 + 3
      radius == IF i < 2 THEN rand(D(k1), 400, 1200)
                ELSE IF i < 4 THEN rand(D(k1), 800, 1800)
                ELSE IF planetType = "gas" THEN rand(D(k1), 2000, 4500)
                ELSE rand(D(k1), 1000, 2200)
      hue == IF planetType = "gas" THEN rand(D(k1 + 1), 200, 600)
             ELSE IF planetType = "ice" THEN rand(D(k1 + 1), 1800, 2400)
             ELSE rand(D(k1 + 1), 0, 3600)
      saturation == IF planetType = "gas" THEN rand(D(k1 + 2), 400, 800)
                    ELSE IF planetType = "ice" THEN rand(D(k1 + 2), 300, 700)
                    ELSE rand(D(k1 + 2), 300, 900)
      lightness == IF planetType = "gas" THEN rand(D(k1 + 3), 400, 700)
                   ELSE IF planetType = "ice" THEN rand(D(k1 + 3), 600, 900)
                   ELSE rand(D(k1 + 3), 300, 700)
      color == hslToHex(hue, saturation, lightness)
      orbitRadius == orbit
      \* 12 / Math.sqrt(orbitRadius + 1)
      orbitSpeed == 12000000 \div ISqrt((orbitRadius + 1000) * 1000)
      rotationSpeed == rand(D(k1 + 4), 500, 3500)
      tilt == rand(D(k1 + 5), -600, 600)
      eccentricity == eccentricityOf(D(k1 + 6))
      inclination == rand(D(k1 + 7), -220, 220)
      ascendingNode == rand(D(k1 + 8), 0, TwoPiMilli)
      argPeriapsis == rand(D(k1 + 9), 0, TwoPiMilli)
      initialAnomaly == rand(D(k1 + 10), 0, TwoPiMilli)
      k2 == k1 + 10
      \* ring
      ringDraw == D(k2 + 1)
      hasRing == hasRingOf(planetType, ringDraw, radius)
      ring == IF hasRing
              THEN << [ innerRadius |-> (radius * rand(D(k2 + 2), 1200, 1500)) \div 1000,
                        outerRadius |-> (radius * rand(D(k2 + 3), 1800, 2600)) \div 1000,
                        color |-> hslToHex(hue, Min(1000, (saturation * 6) \div 10),
                                           Min(1000, lightness + 200)),
                        opacity |-> rand(D(k2 + 4), 350, 650) ] >>
              ELSE <<>>
      k3 == IF hasRing THEN k2 + 4 ELSE k2 + 1
      \* atmosphere
      atmDraw == IF planetType = "rocky" THEN D(k3 + 1) ELSE NoDraw
      rockyAtm == rockyAtmosphere(planetType, atmDraw)
      atmosphere ==
        IF planetType = "gas"
        THEN << [ thickness |-> (radius * rand(D(k3 + 1), 80, 150)) \div 1000,
                  color |-> color,
                  intensity |-> rand(D(k3 + 2), 200, 400),
                  fresnelPower |-> rand(D(k3 + 3), 1500, 2500) ] >>
        ELSE IF rockyAtm
        THEN << [ thickness |-> (radius * rand(D(k3 + 2), 50, 100)) \div 1000,
                  color |-> 8965375,
                  intensity |-> rand(D(k3 + 3), 600, 1000),
                  fresnelPower |-> rand(D(k3 + 4), 2000, 3500) ] >>
        ELSE <<>>
      k4 == IF planetType = "gas" THEN k3 + 3
            ELSE IF rockyAtm THEN k3 + 4
            ELSE IF planetType = "rocky" THEN k3 + 1
            ELSE k3
      seed == rand(D(k4 + 1), 0, 10000)
      newOrbit == orbit + OrbitAdvance(D(k4 + 2), radius)
  IN  [ planet |-> [ name |-> name, radius |-> radius, color |-> color,
                     orbitRadius |-> orbitRadius, orbitSpeed |-> orbitSpeed,
                     rotationSpeed |-> rotationSpeed, tilt |-> tilt,
                     ring |-> ring, atmosphere |-> atmosphere,
                     planetType |-> planetType, seed |-> seed,
                     eccentricity |-> eccentricity, inclination |-> inclination,
                     ascendingNode |-> ascendingNode, argPeriapsis |-> argPeriapsis,
                     initialAnomaly |-> initialAnomaly ],
        x |-> S[k4 + 2],
        orbit |-> newOrbit,
        maxOrbit |-> maxOrbitAfter(orbit, newOrbit, maxOrbit),
        rolls |-> [ type |-> typeDraw, ring |-> ringDraw, atm |-> atmDraw ] ]

planetIteration(i, x, orbit, maxOrbit) ==
  Let(rngSeq(x, MaxPlanetDraws), LAMBDA S : planetDraws(i, S, orbit, maxOrbit))

\* ------------------------------------------------------------------------
\* generateSystem: seed resolution
\* ------------------------------------------------------------------------
Digit(v) == 48 + v

\* decimal digits of a non-negative number <<hi, lo>>, most significant first
RECURSIVE Digits(_)
Digits(n) ==
  IF n[1] = 0 /\ n[2] < 10 THEN <<Digit(n[2])>>
  ELSE Let(((n[1] % 10) * Half) + n[2], LAMBDA t :
         Let(<<(n[1] \div 10) + ((t \div 10) \div Half), (t \div 10) % Half>>,
             LAMBDA q : Digits(q) \o <<Digit(t % 10)>>))

Negate(n) == IF n[2] = 0 THEN <<0 - n[1], 0>> ELSE <<(0 - n[1]) - 1, Half - n[2]>>

\* String(n) of an integer-valued number
NumberToString(n) == IF n[1] < 0 THEN <<45>> \o Digits(Negate(n)) ELSE Digits(n)

\* Date.now() is 1700000000000 + now milliseconds
NowString(now) == <<49, 55, 48, 48, 48, 48, 48, 48, 48, 48, 48, 48, Digit(now)>>

NumberArg(n) == [t |-> "number", n |-> n, s |-> <<>>]
StringArg(str) == [t |-> "string", n |-> Zero, s |-> str]
UndefinedArg == [t |-> "undefined", n |-> Zero, s |-> <<>>]

\* every argument hashed through String(seed), numbers included
resolveSeedHashAll(a, now) ==
  stringToSeed(IF a.t = "number" THEN NumberToString(a.n)
               ELSE IF a.t = "string" THEN a.s ELSE NowString(now))

\* the clock used whether or not a seed is given
resolveSeedClock(a, now) == stringToSeed(NowString(now))

\* typeof seed === 'number' ? seed : stringToSeed(String(seed ?? `${Date.now()}`))
resolveSeed(a, now) ==
  IF a.t = "number" THEN a.n
  ELSE stringToSeed(IF a.t = "string" THEN a.s ELSE NowString(now))

\* ------------------------------------------------------------------------
\* Planet.js: real numbers of the orbit propagation as fixed-point integers,
\* One units per 1.0 (angles in 1e-8 rad)
\* ------------------------------------------------------------------------
Limb == 10000
One == Limb * Limb

\* Math.PI, Math.PI * 2
Pi == 314159265
TwoPi == Pi * 2

Sign(v) == IF v < 0 THEN 0 - 1 ELSE 1

\* a * b, rounded to the nearest unit
mulfix(a, b) ==
  Let(<<Abs(a) \div Limb, Abs(a) % Limb, Abs(b) \div Limb, Abs(b) % Limb,
        Sign(a) * Sign(b)>>,
      LAMBDA p :
        p[5] * ( (p[1] * p[3])
                 + ((p[1] * p[4]) \div Limb)
                 + ((p[2] * p[3]) \div Limb)
                 + ( ( ((p[1] * p[4]) % Limb) + ((p[2] * p[3]) % Limb)
                       + ((p[2] * p[4]) \div Limb) + (Limb \div 2) )
                     \div Limb ) ))

\* the next k decimal digits of r / b after the quotient q, for 0 <= r < b
RECURSIVE divDigits(_, _, _, _)
divDigits(q, r, b, k) ==
  IF k = 0 THEN q
  ELSE Let(<<(q * 10) + ((r * 10) \div b), (r * 10) % b>>,
           LAMBDA p : divDigits(p[1], p[2], b, k - 1))

\* a / b for 0 < b < 2.1, truncated to the unit
divfix(a, b) ==
  Let(<<Abs(a), b, Sign(a)>>,
      LAMBDA p : p[3] * divDigits(p[1] \div p[2], p[1] % p[2], p[2], 8))

\* x % y of JavaScript: the remainder has the sign of the dividend
jsRem(a, n) ==
  Let(a, LAMBDA v : IF v >= 0 THEN v % n ELSE 0 - ((0 - v) % n))

\* the angle brought into [-Pi, Pi], then folded into [-Pi/2, Pi/2] by
\* sin(Pi - x) = sin(x)
reduceAngle(v) ==
  Let((((v % TwoPi) + Pi) % TwoPi) - Pi,
      LAMBDA r : IF r > Pi \div 2 THEN Pi - r
                 ELSE IF r < 0 - (Pi \div 2) THEN (0 - Pi) - r
                 ELSE r)

\* the Taylor series from the term t of degree n on, for the squared
\* argument x2; terms alternate in sign and stop at degree 17
RECURSIVE taylor(_, _, _)
taylor(t, x2, n) ==
  IF n > 17 \/ t = 0 THEN 0
  ELSE t - Let(mulfix(t, x2) \div ((n + 1) * (n + 2)),
               LAMBDA u : taylor(u, x2, n + 2))

\* Math.sin, Math.cos: the series, kept within [-1, 1] as the values of
\* Math.sin are
sinfix(v) ==
  Let(reduceAngle(v),
      LAMBDA r : Let(mulfix(r, r),
                     LAMBDA x2 : Max(0 - One, Min(One, taylor(r, x2, 1)))))

cosfix(v) == sinfix((v % TwoPi) + (Pi \div 2))

\* Math.sqrt of v, 0 <= v <= 1: the integer root, then one Newton step
sqrtfix(v) ==
  IF v <= 0 THEN 0
  ELSE Let(ISqrt(v) * Limb, LAMBDA g : (g + divfix(v, g)) \div 2)

\* the clamp reaching 1
EccMaxOne == One

\* the upper end of the clamp in the constructor
EccMax == 95 * (One \div 100)

\* Math.min(0.95, eccentricity): the clamp without its lower end
clampEccentricityAbove(e) == Min(EccMax, e)

\* THREE.MathUtils.clamp(eccentricity, 0, 0.95)
clampEccentricity(e) == Max(0, Min(EccMax, e))

\* line 457 without the "+ Math.PI * 2": the remainder keeps the sign
wrapAngleNoShift(m) == jsRem(m, TwoPi)

\* line 457: (m % (Math.PI * 2) + Math.PI * 2) % (Math.PI * 2)
wrapAngle(m) == jsRem(jsRem(m, TwoPi) + TwoPi, TwoPi)

\* line 463: f = E - e sin(E) - M
keplerF(e, M, E) == (E - mulfix(e, sinfix(E))) - M

\* line 464: f1 = 1 - e cos(E)
keplerF1(e, E) == One - mulfix(e, cosfix(E))

\* lines 463-465: one Newton-Raphson step
newtonStep(e, M, E) ==
  Let(<<keplerF(e, M, E), keplerF1(e, E)>>,
      LAMBDA p : E - divfix(p[1], p[2]))

\* line 462: the number of iterations, and the eccentricity from which the
\* start is Math.PI (line 461)
SolverIterations == 6
EccHigh == 8 * (One \div 10)

\* the loop of lines 462-466 from its i-th pass on
RECURSIVE newton(_, _, _, _)
newton(e, M, E, i) ==
  IF i >= SolverIterations THEN E
  ELSE Let(newtonStep(e, M, E), LAMBDA n : newton(e, M, n, i + 1))

\* the values of f1 in the passes of the loop of lines 462-466, from the
\* i-th pass on
RECURSIVE denominators(_, _, _, _)
denominators(e, M, E, i) ==
  IF i >= SolverIterations THEN <<>>
  ELSE Let(newtonStep(e, M, E),
           LAMBDA n : <<keplerF1(e, E)>> \o denominators(e, M, n, i + 1))

\* the solver with one pass less
solveKeplerShort(e, M) == newton(e, M, IF e < EccHigh THEN M ELSE Pi, 1)

\* line 461: let E = this.eccentricity < 0.8 ? M : Math.PI
initialGuess(e, M) == IF e < EccHigh THEN M ELSE Pi

\* lines 460-466: the eccentric anomaly E for mean anomaly M
solveKepler(e, M) == newton(e, M, initialGuess(e, M), 0)

\* A number that may be NaN is <<v>>, or <<>> for NaN
NaN == <<>>

\* Math.sqrt(v): NaN below zero
sqrtNum(v) == IF v < 0 THEN NaN ELSE <<sqrtfix(v)>>

\* b * s for b that may be NaN
timesNum(b, s) == IF b = NaN THEN NaN ELSE <<mulfix(b[1], s)>>

\* a * Math.sqrt(1 - e * e): the semi-minor axis without the clamp
semiMinorNoClamp(a, e) ==
  Let(sqrtNum(One - mulfix(e, e)),
      LAMBDA r : IF r = NaN THEN NaN ELSE <<mulfix(a, r[1])>>)

\* lines 431 and 470: b = a * Math.sqrt(Math.max(0, 1 - e * e))
semiMinor(a, e) ==
  Let(sqrtNum(Max(0, One - mulfix(e, e))),
      LAMBDA r : IF r = NaN THEN NaN ELSE <<mulfix(a, r[1])>>)

\* lines 469-472 with z = b * Math.cos(E)
bodyPositionCosCos(a, e, E) ==
  Let(semiMinor(a, e),
      LAMBDA b : <<mulfix(a, cosfix(E) - e), timesNum(b, cosfix(E))[1]>>)

\* lines 469-472: the in-plane position <<x, z>>, in the unit of a
bodyPosition(a, e, E) ==
  Let(semiMinor(a, e),
      LAMBDA b : <<mulfix(a, cosfix(E) - e), timesNum(b, sinfix(E))[1]>>)

\* the spin advancing by rotationSpeed at every call, whatever deltaSeconds
spinStepPerCall(w, dt) == w

\* rotationSpeed * deltaSeconds in 1e-5 rad, for rotationSpeed in 1e-3 rad/s
\* and deltaSeconds in 1e-5 s
spinStep(w, dt) == Sign(w * dt) * (Abs(w * dt) \div 1000)

\* ------------------------------------------------------------------------
\* State
\* ------------------------------------------------------------------------
VARIABLES
  strSeed,     \* the seed a stand-alone stream was made from
  strX,        \* its integer state x
  strOut,      \* the numerator of the value its last call returned
  strCount,    \* number of calls made on it
  now,         \* the wall clock read by Date.now()
  pc,          \* position of each call of generateSystem
  arg,         \* its argument
  seedValue,   \* const seedValue
  x,           \* the state of the stream the call created
  sun,         \* the star returned by randomStar
  numPlanets,  \* const numPlanets
  countDraw,   \* the draw numPlanets was computed from
  orbit,       \* let orbit
  maxOrbit,    \* let maxOrbit
  planets,     \* const planets
  rolls,       \* per planet, the draws that decided type, ring, atmosphere
  ret,         \* the value returned: <<>> until the call returns
  smpTypes,    \* the weights of starTypes, in thousandths, in list order
  smpX,        \* the state of the stream createLayer draws from
  smpRand,     \* const rand of the last star
  smpSel,      \* position in starTypes of its selectedType: 0 before any star
  smpCount,    \* the loop index i of createLayer
  eccentricity,     \* per Planet, this.eccentricity
  orbitRadius,      \* this.orbitRadius, in 1e-3
  orbitSpeed,       \* this.orbitSpeed, in 1e-3 rad/s
  rotationSpeed,    \* this.rotationSpeed, in 1e-3 rad/s
  meanAnomaly,      \* this.meanAnomaly
  eccentricAnomaly, \* the E of the last update
  position,         \* this.bodyGroup.position: <<x, z>>, in 1e-3
  rotationY,        \* this.mesh.rotation.y, in 1e-5 rad
  updates,          \* per Planet, the calls of update made: -1 when not built
  semiMinorAxis,    \* per Planet, b of the last update: <<v>> in 1e-3, or NaN
  inclination,      \* this.inclination, in 1e-3 rad
  ascendingNode,    \* this.ascendingNode, in 1e-3 rad
  argPeriapsis,     \* this.argPeriapsis, in 1e-3 rad
  scene,            \* per Planet and group, its parent and its rotation.x, .y
  lineA,            \* createEllipticalOrbitLine: the argument a, in 1e-3
  lineE,            \* the argument e, in 1e-8
  lineSegments,     \* the argument segments
  linePc,           \* "idle", "call", "loop" or "done"
  lineB,            \* const b: <<v>> in 1e-3, or NaN
  lineI,            \* the loop variable i
  linePositions,    \* positions, one <<x, z>> per point, z a number or NaN
  hashStr,     \* the string whose variants stringToSeed is called on
  hashOut,     \* per variant, <<>> or the returned value
  page,          \* the page load followed: 0 when no page is, then 1, 2
  urlSeed,       \* the seed parameter of location.search: <<>> or <<string>>
  gamePc,        \* "none", "new", "generating", "ready" or "running"
  genCalls,      \* calls of generateSystem made by the page
  seedInput,     \* the value of the seed-input field
  baseDistance,  \* this.baseDistance, in 1e-3
  viewModeIdx,   \* this.currentViewModeIdx
  followEnabled, \* this.followEnabled
  built,         \* this.planets.length
  tick,          \* "idle", or "updating" inside animate
  pending,       \* the planets forEach has not reached yet in this tick
  tickDt,        \* deltaTime * this.timeScale of this tick, in 1e-5 s
  tickStart,     \* meanAnomaly, position and rotationY as the tick began
  alone          \* per call of generateSystem, the state of a stream made
                 \* from its seedValue and advanced by its draws only

strVars == <<strSeed, strX, strOut, strCount>>

genVars == <<now, pc, arg, seedValue, x, sun, numPlanets, countDraw, orbit,
             maxOrbit, planets, rolls, ret>>

smpVars == <<smpTypes, smpX, smpRand, smpSel, smpCount>>

plVars == <<eccentricity, orbitRadius, orbitSpeed, rotationSpeed, meanAnomaly,
            eccentricAnomaly, position, rotationY, updates, semiMinorAxis,
            inclination, ascendingNode, argPeriapsis, scene>>

lineVars == <<lineA, lineE, lineSegments, linePc, lineB, lineI, linePositions>>

hashVars == <<hashStr, hashOut>>

gameVars == <<page, urlSeed, gamePc, genCalls, seedInput, baseDistance,
              viewModeIdx, followEnabled, built, tick, pending, tickDt,
              tickStart>>

isoVars == <<alone>>

vars == <<strVars, genVars, smpVars, plVars, hashVars, lineVars, gameVars,
          isoVars>>

\* two calls of generateSystem, one after the other
Runs == {1, 2}

\* numeric seeds: 0, 1, 2, 8, 23, 42, 2^31, 2^32 - 1, -1, 2^32, 2^32 + 42,
\* -2^32, and every power of two below 2^32
NumberSeeds ==
  { <<0, 0>>, <<0, 1>>, <<0, 2>>, <<0, 8>>, <<0, 23>>, <<0, 42>>,
    <<32768, 0>>, <<65535, 65535>>, <<-1, 65535>>, <<65536, 0>>,
    <<65536, 42>>, <<-65536, 0>> }
  \cup { <<0, 2 ^ k>> : k \in 0..15 } \cup { <<2 ^ k, 0>> : k \in 0..15 }

\* "abc", ""
StringSeeds == { <<97, 98, 99>>, <<>> }

\* the arguments generateSystem is called with: numbers 0, 8, 42, 2^32 + 42,
\* the strings, their hashes as numbers, and no argument
GenArgs ==
  { NumberArg(n) : n \in { <<0, 0>>, <<0, 8>>, <<0, 42>>, <<65536, 42>> } }
  \cup { StringArg(str) : str \in StringSeeds }
  \cup { NumberArg(stringToSeed(str)) : str \in StringSeeds }
  \cup { NumberArg(stringToSeed(NowString(t))) : t \in 0..MaxNow }
  \cup { UndefinedArg }

NoSun == [radius |-> 0, color |-> 0, lightColor |-> 0, lightIntensity |-> 0]

StrIdle ==
  /\ strSeed = Zero
  /\ strX = Zero
  /\ strOut = Zero
  /\ strCount = -1

GenIdle ==
  /\ now = 0
  /\ pc = [r \in Runs |-> "idle"]
  /\ arg = [r \in Runs |-> UndefinedArg]
  /\ seedValue = [r \in Runs |-> Zero]
  /\ x = [r \in Runs |-> Zero]
  /\ sun = [r \in Runs |-> NoSun]
  /\ numPlanets = [r \in Runs |-> 0]
  /\ countDraw = [r \in Runs |-> NoDraw]
  /\ orbit = [r \in Runs |-> 0]
  /\ maxOrbit = [r \in Runs |-> 0]
  /\ planets = [r \in Runs |-> <<>>]
  /\ rolls = [r \in Runs |-> <<>>]
  /\ ret = [r \in Runs |-> <<>>]

\* the Planet objects followed
Bodies == {1, 2}

\* the groups of a Planet
Groups == {"pivot", "orbitGroup", "inclinationGroup", "periapsisGroup",
           "bodyGroup"}

\* a THREE.Group as created: no parent, no rotation
NewGroup == [parent |-> "none", x |-> 0, y |-> 0]

\* the chain with the inclination group outermost
sceneChainInclinationFirst(node, incl, argP) ==
  [g \in Groups |->
     CASE g = "pivot" -> NewGroup
       [] g = "inclinationGroup" -> [parent |-> "pivot", x |-> incl, y |-> 0]
       [] g = "orbitGroup" -> [parent |-> "inclinationGroup", x |-> 0, y |-> node]
       [] g = "periapsisGroup" -> [parent |-> "orbitGroup", x |-> 0, y |-> argP]
       [] g = "bodyGroup" -> [parent |-> "periapsisGroup", x |-> 0, y |-> 0]]

\* lines 34-53: the groups the constructor creates and links
sceneChain(node, incl, argP) ==
  [g \in Groups |->
     CASE g = "pivot" -> NewGroup
       [] g = "orbitGroup" -> [parent |-> "pivot", x |-> 0, y |-> node]
       [] g = "inclinationGroup" -> [parent |-> "orbitGroup", x |-> incl, y |-> 0]
       [] g = "periapsisGroup" -> [parent |-> "inclinationGroup", x |-> 0, y |-> argP]
       [] g = "bodyGroup" -> [parent |-> "periapsisGroup", x |-> 0, y |-> 0]]

PlIdle ==
  /\ eccentricity = [p \in Bodies |-> 0]
  /\ orbitRadius = [p \in Bodies |-> 0]
  /\ orbitSpeed = [p \in Bodies |-> 0]
  /\ rotationSpeed = [p \in Bodies |-> 0]
  /\ meanAnomaly = [p \in Bodies |-> 0]
  /\ eccentricAnomaly = [p \in Bodies |-> 0]
  /\ position = [p \in Bodies |-> <<0, 0>>]
  /\ rotationY = [p \in Bodies |-> 0]
  /\ updates = [p \in Bodies |-> 0 - 1]
  /\ semiMinorAxis = [p \in Bodies |-> <<0>>]
  /\ inclination = [p \in Bodies |-> 0]
  /\ ascendingNode = [p \in Bodies |-> 0]
  /\ argPeriapsis = [p \in Bodies |-> 0]
  /\ scene = [p \in Bodies |-> [g \in Groups |-> NewGroup]]

\* the planets of a page that is left are gone
PlUnload ==
  /\ eccentricity' = [p \in Bodies |-> 0]
  /\ orbitRadius' = [p \in Bodies |-> 0]
  /\ orbitSpeed' = [p \in Bodies |-> 0]
  /\ rotationSpeed' = [p \in Bodies |-> 0]
  /\ meanAnomaly' = [p \in Bodies |-> 0]
  /\ eccentricAnomaly' = [p \in Bodies |-> 0]
  /\ position' = [p \in Bodies |-> <<0, 0>>]
  /\ rotationY' = [p \in Bodies |-> 0]
  /\ updates' = [p \in Bodies |-> 0 - 1]
  /\ semiMinorAxis' = [p \in Bodies |-> <<0>>]
  /\ inclination' = [p \in Bodies |-> 0]
  /\ ascendingNode' = [p \in Bodies |-> 0]
  /\ argPeriapsis' = [p \in Bodies |-> 0]
  /\ scene' = [p \in Bodies |-> [g \in Groups |-> NewGroup]]

\* no concurrent call of generateSystem is followed
IsoIdle == alone = [r \in Runs |-> Zero]

\* no page is loaded and no tick is running
GameIdle ==
  /\ page = 0
  /\ urlSeed = <<>>
  /\ gamePc = "none"
  /\ genCalls = 0
  /\ seedInput = <<>>
  /\ baseDistance = 0
  /\ viewModeIdx = 0
  /\ followEnabled = FALSE
  /\ built = 0
  /\ tick = "idle"
  /\ pending = {}
  /\ tickDt = 0
  /\ tickStart = <<>>

\* no call of createEllipticalOrbitLine is followed
LineIdle ==
  /\ lineA = 0
  /\ lineE = 0
  /\ lineSegments = 0
  /\ linePc = "idle"
  /\ lineB = <<0>>
  /\ lineI = 0
  /\ linePositions = <<>>

\* the calls of stringToSeed followed for one string: on the string, on the
\* string reversed, on the string with the case of its letters swapped
Variants == {"same", "reversed", "swapped"}

HashIdle ==
  /\ hashStr = <<>>
  /\ hashOut = [v \in Variants |-> <<>>]

SmpIdle ==
  /\ smpTypes = <<>>
  /\ smpX = Zero
  /\ smpRand = Zero
  /\ smpSel = 0
  /\ smpCount = -1

\* ------------------------------------------------------------------------
\* A stand-alone stream: makeRng(seed), then calls of the returned function
\* ------------------------------------------------------------------------
StreamInit ==
  /\ strSeed \in NumberSeeds
  /\ strX = makeRng(strSeed)
  /\ strOut = Zero
  /\ strCount = 0
  /\ GenIdle
  /\ SmpIdle
  /\ PlIdle
  /\ HashIdle
  /\ LineIdle
  /\ GameIdle
  /\ IsoIdle

StreamDraw ==
  /\ strCount >= 0
  /\ strCount < MaxDraws
  /\ strX' = rngStep(strX)
  /\ strOut' = rngValue(strX')
  /\ strCount' = strCount + 1
  /\ UNCHANGED <<strSeed, genVars, smpVars, plVars, hashVars, lineVars, gameVars, isoVars>>

StreamNext == StreamDraw

SpecStream == StreamInit /\ [][StreamNext]_vars

\* ------------------------------------------------------------------------
\* generateSystem(seed), run r
\* ------------------------------------------------------------------------
GenInit ==
  /\ StrIdle /\ GenIdle /\ SmpIdle /\ PlIdle /\ HashIdle /\ LineIdle
  /\ GameIdle /\ IsoIdle

\* lines 204-208: resolve the seed, create the stream, randomStar; c is the
\* place of the let x that makeRng declares for this call
CallAt(r, a, c) ==
  /\ pc[r] = "idle"
  /\ \E sv \in {resolveSeed(a, now)} :
       \E S \in {rngSeq(makeRng(sv), StarDraws)} :
         /\ seedValue' = [seedValue EXCEPT ![r] = sv]
         /\ sun' = [sun EXCEPT ![r] = randomStar(S)]
         /\ x' = [x EXCEPT ![c] = S[StarDraws]]
  /\ arg' = [arg EXCEPT ![r] = a]
  /\ pc' = [pc EXCEPT ![r] = "count"]
  /\ UNCHANGED <<now, numPlanets, countDraw, orbit, maxOrbit, planets, rolls, ret>>

\* The function is synchronous: a call starts only when no other call is
\* running, and its stream is its own.
Call(r, a) ==
  /\ \A q \in Runs : pc[q] \in {"idle", "done"}
  /\ CallAt(r, a, r)

\* lines 73-76: numPlanets, planets, orbit, maxOrbit
CountAt(r, c) ==
  /\ pc[r] = "count"
  /\ \E S \in {rngSeq(x[c], 2)} :
       \E o \in {((sun[r].radius * 5) \div 2) + rand(rngValue(S[2]), 6000, 12000)} :
         /\ numPlanets' = [numPlanets EXCEPT ![r] = randInt(rngValue(S[1]), 4, 10)]
         /\ countDraw' = [countDraw EXCEPT ![r] = rngValue(S[1])]
         /\ orbit' = [orbit EXCEPT ![r] = o]
         /\ maxOrbit' = [maxOrbit EXCEPT ![r] = o]
         /\ x' = [x EXCEPT ![c] = S[2]]
  /\ planets' = [planets EXCEPT ![r] = <<>>]
  /\ pc' = [pc EXCEPT ![r] = "loop"]
  /\ UNCHANGED <<now, arg, seedValue, sun, rolls, ret>>

Count(r) == CountAt(r, r)

\* lines 78-197: one iteration of the loop
IterateAt(r, c) ==
  /\ pc[r] = "loop"
  /\ Len(planets[r]) < numPlanets[r]
  /\ \E it \in {planetIteration(Len(planets[r]), x[c], orbit[r], maxOrbit[r])} :
         /\ planets' = [planets EXCEPT ![r] = Append(@, it.planet)]
         /\ rolls' = [rolls EXCEPT ![r] = Append(@, it.rolls)]
         /\ x' = [x EXCEPT ![c] = it.x]
         /\ orbit' = [orbit EXCEPT ![r] = it.orbit]
         /\ maxOrbit' = [maxOrbit EXCEPT ![r] = it.maxOrbit]
  /\ UNCHANGED <<now, pc, arg, seedValue, sun, numPlanets, countDraw, ret>>

Iterate(r) == IterateAt(r, r)

\* lines 199, 209-210: the loop is over; return { sun, planets, maxOrbit, seed }
Return(r) ==
  /\ pc[r] = "loop"
  /\ Len(planets[r]) >= numPlanets[r]
  /\ ret' = [ret EXCEPT ![r] = << [ sun |-> sun[r], planets |-> planets[r],
                                    maxOrbit |-> maxOrbit[r],
                                    seed |-> seedValue[r] ] >>]
  /\ pc' = [pc EXCEPT ![r] = "done"]
  /\ UNCHANGED <<now, arg, seedValue, x, sun, numPlanets, countDraw, orbit,
                 maxOrbit, planets, rolls>>

\* the wall clock advances
Tick ==
  /\ now < MaxNow
  /\ now' = now + 1
  /\ UNCHANGED <<pc, arg, seedValue, x, sun, numPlanets, countDraw, orbit,
                 maxOrbit, planets, rolls, ret>>

GenNext ==
  \/ \E r \in Runs, a \in GenArgs : Call(r, a) /\ UNCHANGED <<strVars, smpVars, plVars, hashVars, lineVars, gameVars, isoVars>>
  \/ \E r \in Runs : Count(r) /\ UNCHANGED <<strVars, smpVars, plVars, hashVars, lineVars, gameVars, isoVars>>
  \/ \E r \in Runs : Iterate(r) /\ UNCHANGED <<strVars, smpVars, plVars, hashVars, lineVars, gameVars, isoVars>>
  \/ \E r \in Runs : Return(r) /\ UNCHANGED <<strVars, smpVars, plVars, hashVars, lineVars, gameVars, isoVars>>
  \/ Tick /\ UNCHANGED <<strVars, smpVars, plVars, hashVars, lineVars, gameVars, isoVars>>

SpecGen == GenInit /\ [][GenNext]_vars

Done(r) == pc[r] = "done"

Returned(r) == ret[r][1]

\* ------------------------------------------------------------------------
\* Two calls of generateSystem whose steps interleave: each call has the
\* stream its own makeRng created
\* ------------------------------------------------------------------------
\* one x for every stream, as a variable outside makeRng would be
closureShared(r) == 1

\* lines 14-15: let x is declared inside makeRng, one per call
closureOf(r) == r

\* generateSystem(8), generateSystem(42), generateSystem("abc")
IsoArgs == { NumberArg(<<0, 8>>), NumberArg(<<0, 42>>), StringArg(<<97, 98, 99>>) }

IsoCall(r, a) ==
  /\ CallAt(r, a, closureOf(r))
  /\ alone' = [alone EXCEPT
                 ![r] = rngSeq(makeRng(resolveSeed(a, now)), StarDraws)[StarDraws]]

IsoCount(r) ==
  /\ CountAt(r, closureOf(r))
  /\ alone' = [alone EXCEPT ![r] = rngSeq(alone[r], 2)[2]]

IsoIterate(r) ==
  /\ IterateAt(r, closureOf(r))
  /\ alone' = [alone EXCEPT
                 ![r] = planetIteration(Len(planets[r]), alone[r], 0, 0).x]

IsoReturn(r) == Return(r) /\ UNCHANGED alone

IsoNext ==
  \/ \E r \in Runs, a \in IsoArgs :
       IsoCall(r, a) /\ UNCHANGED <<strVars, smpVars, plVars, hashVars, lineVars, gameVars>>
  \/ \E r \in Runs :
       IsoCount(r) /\ UNCHANGED <<strVars, smpVars, plVars, hashVars, lineVars, gameVars>>
  \/ \E r \in Runs :
       IsoIterate(r) /\ UNCHANGED <<strVars, smpVars, plVars, hashVars, lineVars, gameVars>>
  \/ \E r \in Runs :
       IsoReturn(r) /\ UNCHANGED <<strVars, smpVars, plVars, hashVars, lineVars, gameVars>>

SpecIsolation == GenInit /\ [][IsoNext]_vars

\* ------------------------------------------------------------------------
\* Stars.createLayer: the star class of each point (Stars.js; the same loop
\* is in StarClusters.js, lines 53-64)
\* ------------------------------------------------------------------------
\* starTypes[k].weight in thousandths: M, K, G, F, A, B, O-class
StarTypeWeights == <<760, 120, 80, 30, 6, 3, 1>>

\* rand <= cumulativeWeight, for the draw d / 2^32 and the weight cum / 1000:
\* 1000 * d <= cum * 2^32, compared as quotient and remainder by 2^32
DrawLeq(d, cum) ==
  Let(<<(1000 * d[1]) + ((1000 * d[2]) \div Half), (1000 * d[2]) % Half>>,
      LAMBDA m : \/ (m[1] \div Half) < cum
                 \/ /\ (m[1] \div Half) = cum
                    /\ (m[1] % Half) = 0
                    /\ m[2] = 0)

\* the for-of loop from its i-th element on; selectedType stays starTypes[0]
\* (position 1) when no element breaks the loop
RECURSIVE selectLoop(_, _, _, _)
selectLoop(types, d, i, cumulativeWeight) ==
  IF i > Len(types) THEN 1
  ELSE Let(cumulativeWeight + types[i],
           LAMBDA c : IF DrawLeq(d, c) THEN i
                      ELSE selectLoop(types, d, i + 1, c))

\* lines 164-175: the position in starTypes of selectedType
selectType(types, d) == selectLoop(types, d, 1, 0)

\* the sum of the weights of the list
RECURSIVE TotalWeight(_)
TotalWeight(types) ==
  IF types = <<>> THEN 0 ELSE Head(types) + TotalWeight(Tail(types))

\* calls of rng() in one iteration of the loop over the points (u, v, r, rand,
\* three colour variations, the size), and the place of rand among them
StarPointDraws == 8
StarRandDraw == 4

\* seeds of the star field: the numeric seeds, and 187, 539, 975, whose first
\* points draw a rand above 0.999
StarSeeds == NumberSeeds \cup { <<0, 187>>, <<0, 539>>, <<0, 975>> }

\* the category lists: the list of createLayer, and the same ordered list
\* without its last class, whose weights sum to 0.999
SamplerLists == { StarTypeWeights, SubSeq(StarTypeWeights, 1, 6) }

SamplerInit ==
  /\ smpTypes \in SamplerLists
  /\ \E seed \in StarSeeds : smpX = makeRng(seed)
  /\ smpRand = Zero
  /\ smpSel = 0
  /\ smpCount = 0
  /\ StrIdle
  /\ GenIdle
  /\ PlIdle
  /\ HashIdle
  /\ LineIdle
  /\ GameIdle
  /\ IsoIdle

\* lines 146-186: one iteration of the loop over the points
StarPoint ==
  /\ smpCount >= 0
  /\ smpCount < MaxStars
  /\ \E S \in {rngSeq(smpX, StarPointDraws)} :
       \E d \in {rngValue(S[StarRandDraw])} :
         /\ smpRand' = d
         /\ smpSel' = selectType(smpTypes, d)
         /\ smpX' = S[StarPointDraws]
  /\ smpCount' = smpCount + 1
  /\ UNCHANGED <<smpTypes, strVars, genVars, plVars, hashVars, lineVars, gameVars, isoVars>>

SamplerNext == StarPoint

SpecSampler == SamplerInit /\ [][SamplerNext]_vars

\* ------------------------------------------------------------------------
\* Planet: the constructor, then calls of update(deltaSeconds)
\* ------------------------------------------------------------------------
\* the constructor's arguments: <<eccentricity, initialAnomaly, orbitRadius,
\* orbitSpeed, rotationSpeed, inclination, ascendingNode, argPeriapsis>>.
\* The first planet takes the defaults orbitRadius 20, orbitSpeed 0.5,
\* rotationSpeed 0.8, inclination, ascendingNode and argPeriapsis 0, with
\* eccentricity
\* 0, 0.3, 0.6, 0.9 and initialAnomaly 0, pi/2, pi, 3pi/2, or with values out
\* of range: eccentricity -0.5 and initialAnomaly -1, eccentricity 1.5 and
\* initialAnomaly 7
PlanetArgs ==
  { <<e, m, 20000, 500, 800, 0, 0, 0>> :
      e \in { 0, 3 * (One \div 10), 6 * (One \div 10), 9 * (One \div 10) },
      m \in { 0, (Pi + 1) \div 2, Pi, (3 * Pi) \div 2 } }
  \cup { <<0 - (One \div 2), 0 - One, 20000, 500, 800, 0, 0, 0>>,
         <<3 * (One \div 2), 7 * One, 20000, 500, 800, 0, 0, 0>> }

\* the second one is as generateSystem describes a planet: eccentricity 0.2,
\* initialAnomaly 1, orbitRadius 31.5, orbitSpeed 1, rotationSpeed 1.5,
\* inclination -0.1, ascendingNode 1, argPeriapsis 2
GeneratedArgs == { <<One \div 5, One, 31500, 1000, 1500, 0 - 100, 1000, 2000>> }

\* deltaSeconds, in 1e-5 s: 0, a frame of the game (0.016 s * timeScale),
\* one second and fourteen seconds forward and backward
DeltaSeconds == { 0, 16, 100000, 0 - 100000, 1400000, 0 - 1400000 }

\* lines 24-32, 34-59: the fields after the construction of the planets
\* from the arguments c[1] and c[2]
Constructed(c) ==
  /\ eccentricity = [p \in Bodies |-> clampEccentricity(c[p][1])]
  /\ meanAnomaly = [p \in Bodies |-> c[p][2]]
  /\ orbitRadius = [p \in Bodies |-> c[p][3]]
  /\ orbitSpeed = [p \in Bodies |-> c[p][4]]
  /\ rotationSpeed = [p \in Bodies |-> c[p][5]]
  /\ inclination = [p \in Bodies |-> c[p][6]]
  /\ ascendingNode = [p \in Bodies |-> c[p][7]]
  /\ argPeriapsis = [p \in Bodies |-> c[p][8]]
  /\ scene = [p \in Bodies |-> sceneChain(c[p][7], c[p][6], c[p][8])]
  /\ eccentricAnomaly = [p \in Bodies |-> 0]
  /\ position = [p \in Bodies |-> <<0, 0>>]
  /\ rotationY = [p \in Bodies |-> 0]
  /\ updates = [p \in Bodies |-> 0]
  /\ semiMinorAxis = [p \in Bodies |-> <<0>>]

\* lines 24-32, 34-59: new Planet(c[1]) and new Planet(c[2]) as a step
Construct(c) ==
  /\ eccentricity' = [p \in Bodies |-> clampEccentricity(c[p][1])]
  /\ meanAnomaly' = [p \in Bodies |-> c[p][2]]
  /\ orbitRadius' = [p \in Bodies |-> c[p][3]]
  /\ orbitSpeed' = [p \in Bodies |-> c[p][4]]
  /\ rotationSpeed' = [p \in Bodies |-> c[p][5]]
  /\ inclination' = [p \in Bodies |-> c[p][6]]
  /\ ascendingNode' = [p \in Bodies |-> c[p][7]]
  /\ argPeriapsis' = [p \in Bodies |-> c[p][8]]
  /\ scene' = [p \in Bodies |-> sceneChain(c[p][7], c[p][6], c[p][8])]
  /\ eccentricAnomaly' = [p \in Bodies |-> 0]
  /\ position' = [p \in Bodies |-> <<0, 0>>]
  /\ rotationY' = [p \in Bodies |-> 0]
  /\ updates' = [p \in Bodies |-> 0]
  /\ semiMinorAxis' = [p \in Bodies |-> <<0>>]

PlanetInit ==
  /\ \E c1 \in PlanetArgs, c2 \in GeneratedArgs :
       \E c \in { <<c1, c2>> } : Constructed(c)
  /\ StrIdle
  /\ GenIdle
  /\ SmpIdle
  /\ HashIdle
  /\ LineIdle
  /\ GameIdle
  /\ IsoIdle

TotalUpdates == updates[1] + updates[2]

\* update reading the mean anomaly of the first planet instead of its own
UpdateFromFirst(p, dt) ==
  /\ updates[p] >= 0
  /\ TotalUpdates < MaxUpdates
  /\ \E M \in { wrapAngle(meanAnomaly[1] + (orbitSpeed[p] * dt)) } :
       \E E \in { solveKepler(eccentricity[p], M) } :
         /\ meanAnomaly' = [meanAnomaly EXCEPT ![p] = M]
         /\ eccentricAnomaly' = [eccentricAnomaly EXCEPT ![p] = E]
         /\ position' = [position EXCEPT
                           ![p] = bodyPosition(orbitRadius[p], eccentricity[p], E)]
  /\ rotationY' = [rotationY EXCEPT ![p] = @ + spinStep(rotationSpeed[p], dt)]
  /\ semiMinorAxis' = [semiMinorAxis EXCEPT
                         ![p] = semiMinor(orbitRadius[p], eccentricity[p])]
  /\ updates' = [updates EXCEPT ![p] = @ + 1]
  /\ UNCHANGED <<eccentricity, orbitRadius, orbitSpeed, rotationSpeed>>
  /\ UNCHANGED <<inclination, ascendingNode, argPeriapsis, scene>>
  /\ UNCHANGED <<strVars, genVars, smpVars, hashVars, isoVars>>

\* lines 454-477: update(deltaSeconds) of planet p
Update(p, dt) ==
  /\ updates[p] >= 0
  /\ TotalUpdates < MaxUpdates
  /\ \E M \in { wrapAngle(meanAnomaly[p] + (orbitSpeed[p] * dt)) } :
       \E E \in { solveKepler(eccentricity[p], M) } :
         /\ meanAnomaly' = [meanAnomaly EXCEPT ![p] = M]
         /\ eccentricAnomaly' = [eccentricAnomaly EXCEPT ![p] = E]
         /\ position' = [position EXCEPT
                           ![p] = bodyPosition(orbitRadius[p], eccentricity[p], E)]
  /\ rotationY' = [rotationY EXCEPT ![p] = @ + spinStep(rotationSpeed[p], dt)]
  /\ semiMinorAxis' = [semiMinorAxis EXCEPT
                         ![p] = semiMinor(orbitRadius[p], eccentricity[p])]
  /\ updates' = [updates EXCEPT ![p] = @ + 1]
  /\ UNCHANGED <<eccentricity, orbitRadius, orbitSpeed, rotationSpeed>>
  /\ UNCHANGED <<inclination, ascendingNode, argPeriapsis, scene>>
  /\ UNCHANGED <<strVars, genVars, smpVars, hashVars, isoVars>>

PlanetNext ==
  \E p \in Bodies, dt \in DeltaSeconds :
    Update(p, dt) /\ UNCHANGED <<lineVars, gameVars, isoVars>>

SpecPlanet == PlanetInit /\ [][PlanetNext]_vars

\* ------------------------------------------------------------------------
\* Game.animate: one tick updates every planet with the same deltaSeconds.
\* forEach visits the planets in array order; here any order is taken.
\* ------------------------------------------------------------------------
\* deltaTime of this.clock.getDelta(), in 1e-5 s: 0, a frame of 16 ms, one
\* second, 100 seconds
FrameDeltas == { 0, 1600, 100000, 10000000 }

\* 1 / this.timeScale
TimeScaleInverse == 100

\* deltaTime * this.timeScale
scaledDelta(deltaTime) == deltaTime \div TimeScaleInverse

\* animate up to the forEach over this.planets
TickBegin(deltaTime) ==
  /\ tick = "idle"
  /\ TotalUpdates < MaxUpdates
  /\ tick' = "updating"
  /\ pending' = { p \in Bodies : updates[p] >= 0 }
  /\ tickDt' = scaledDelta(deltaTime)
  /\ tickStart' = [ meanAnomaly |-> meanAnomaly, position |-> position,
                    rotationY |-> rotationY ]
  /\ UNCHANGED <<page, urlSeed, gamePc, genCalls, seedInput, baseDistance,
                 viewModeIdx, followEnabled, built>>
  /\ UNCHANGED <<strVars, genVars, smpVars, plVars, hashVars, lineVars, isoVars>>

\* p.update(deltaTime * this.timeScale) for one planet of the forEach
TickUpdate(p) ==
  /\ tick = "updating"
  /\ p \in pending
  /\ Update(p, tickDt)
  /\ pending' = pending \ {p}
  /\ UNCHANGED <<page, urlSeed, gamePc, genCalls, seedInput, baseDistance,
                 viewModeIdx, followEnabled, built, tick, tickDt, tickStart>>
  /\ UNCHANGED lineVars

\* the rest of animate, after the forEach
TickEnd ==
  /\ tick = "updating"
  /\ pending = {}
  /\ tick' = "idle"
  /\ UNCHANGED <<page, urlSeed, gamePc, genCalls, seedInput, baseDistance,
                 viewModeIdx, followEnabled, built, pending, tickDt, tickStart>>
  /\ UNCHANGED <<strVars, genVars, smpVars, plVars, hashVars, lineVars, isoVars>>

TickNext ==
  \/ \E deltaTime \in FrameDeltas : TickBegin(deltaTime)
  \/ \E p \in Bodies : TickUpdate(p)
  \/ TickEnd

SpecTick == PlanetInit /\ [][TickNext]_vars

\* ------------------------------------------------------------------------
\* Game: a page load constructs the game (generateSystem, the planets, the
\* seed field), start() begins the ticks, and the handlers of the keys and
\* buttons run between ticks.  Apply and Random load the page again.
\* ------------------------------------------------------------------------
\* the seed parameter of the first page: none, "abc", "42", ""
UrlSeeds == { <<>>, << <<97, 98, 99>> >>, << <<52, 50>> >>, << <<>> >> }

\* generateSystem(urlSeed ?? undefined)
urlArg(u) == IF u = <<>> THEN UndefinedArg ELSE StringArg(u[1])

\* new Planet(cfg): the arguments of the constructor, the eccentricity and
\* the anomaly in 1e-8
planetArgs(cfg) ==
  << cfg.eccentricity * 100000, cfg.initialAnomaly * 100000, cfg.orbitRadius,
     cfg.orbitSpeed, cfg.rotationSpeed, cfg.inclination, cfg.ascendingNode,
     cfg.argPeriapsis >>

\* Math.max(60, system.maxOrbit + 20)
baseDistanceOf(m) == Max(60000, m + 20000)

\* String.prototype.trim, for spaces
RECURSIVE trimStart(_)
trimStart(str) ==
  IF str # <<>> /\ Head(str) = 32 THEN trimStart(Tail(str)) ELSE str

RECURSIVE trimEnd(_)
trimEnd(str) ==
  IF str # <<>> /\ str[Len(str)] = 32
    THEN trimEnd(SubSeq(str, 1, Len(str) - 1))
    ELSE str

trim(str) == trimEnd(trimStart(str))

GameInit ==
  /\ page = 1
  /\ urlSeed \in UrlSeeds
  /\ gamePc = "new"
  /\ genCalls = 0
  /\ seedInput = <<>>
  /\ baseDistance = 0
  /\ viewModeIdx = 0
  /\ followEnabled = FALSE
  /\ built = 0
  /\ tick = "idle"
  /\ pending = {}
  /\ tickDt = 0
  /\ tickStart = <<>>
  /\ StrIdle /\ GenIdle /\ SmpIdle /\ PlIdle /\ HashIdle /\ LineIdle /\ IsoIdle

\* lines 162-163: the call of generateSystem, up to randomStar
GameGenerate ==
  /\ gamePc = "new"
  /\ Call(page, urlArg(urlSeed))
  /\ gamePc' = "generating"
  /\ genCalls' = genCalls + 1
  /\ UNCHANGED <<page, urlSeed, seedInput, baseDistance, viewModeIdx,
                 followEnabled, built, tick, pending, tickDt, tickStart>>
  /\ UNCHANGED <<strVars, smpVars, plVars, hashVars, lineVars, isoVars>>

\* generateSystem goes on: randomPlanetConfigs and the return
GameGenerating ==
  /\ gamePc = "generating"
  /\ Count(page) \/ Iterate(page) \/ Return(page)
  /\ UNCHANGED <<strVars, smpVars, plVars, hashVars, lineVars, gameVars, isoVars>>

\* lines 164-245: the rest of the constructor: the planets, baseDistance, the
\* view mode and the seed field
GameBuild ==
  /\ gamePc = "generating"
  /\ Done(page)
  /\ \E sys \in { Returned(page) } :
       /\ \E c \in { <<planetArgs(sys.planets[1]), planetArgs(sys.planets[2])>> } :
            Construct(c)
       /\ built' = Len(sys.planets)
       /\ baseDistance' = baseDistanceOf(sys.maxOrbit)
       /\ seedInput' = NumberToString(sys.seed)
  /\ viewModeIdx' = 1
  /\ followEnabled' = FALSE
  /\ gamePc' = "ready"
  /\ UNCHANGED <<page, urlSeed, genCalls, tick, pending, tickDt, tickStart>>
  /\ UNCHANGED <<strVars, genVars, smpVars, hashVars, lineVars, isoVars>>

\* lines 481-483: start()
GameStart ==
  /\ gamePc = "ready"
  /\ gamePc' = "running"
  /\ UNCHANGED <<page, urlSeed, genCalls, seedInput, baseDistance, viewModeIdx,
                 followEnabled, built, tick, pending, tickDt, tickStart>>
  /\ UNCHANGED <<strVars, genVars, smpVars, plVars, hashVars, lineVars, isoVars>>

\* a frame of the running game begins
GameTickBegin(deltaTime) == gamePc = "running" /\ TickBegin(deltaTime)

\* forEach reaches the next planet, in array order
GameTickUpdate(p) ==
  /\ gamePc = "running"
  /\ \A q \in pending : p <= q
  /\ TickUpdate(p)

GameTickEnd == gamePc = "running" /\ TickEnd

\* a handler may run: the constructor has returned and no frame is running
Interactive == gamePc \in {"ready", "running"} /\ tick = "idle"

\* lines 318-325: keydown of KeyV or KeyF
KeyDown(code) ==
  /\ Interactive
  /\ IF code = "KeyV"
       THEN /\ viewModeIdx' = (viewModeIdx + 1) % 2
            /\ UNCHANGED followEnabled
       ELSE /\ followEnabled' = ~followEnabled
            /\ UNCHANGED viewModeIdx
  /\ UNCHANGED <<page, urlSeed, gamePc, genCalls, seedInput, baseDistance,
                 built, tick, pending, tickDt, tickStart>>
  /\ UNCHANGED <<strVars, genVars, smpVars, plVars, hashVars, lineVars, isoVars>>

\* lines 330-334: click of view-toggle
ViewClick ==
  /\ Interactive
  /\ viewModeIdx' = (viewModeIdx + 1) % 2
  /\ UNCHANGED <<page, urlSeed, gamePc, genCalls, seedInput, baseDistance,
                 followEnabled, built, tick, pending, tickDt, tickStart>>
  /\ UNCHANGED <<strVars, genVars, smpVars, plVars, hashVars, lineVars, isoVars>>

\* lines 347-350: click of follow-toggle
FollowClick ==
  /\ Interactive
  /\ followEnabled' = ~followEnabled
  /\ UNCHANGED <<page, urlSeed, gamePc, genCalls, seedInput, baseDistance,
                 viewModeIdx, built, tick, pending, tickDt, tickStart>>
  /\ UNCHANGED <<strVars, genVars, smpVars, plVars, hashVars, lineVars, isoVars>>

\* reloadWithSeed generating again inside the running page
reloadWithSeedInPlace(seedStr) ==
  /\ urlSeed' = IF Len(seedStr) > 0 THEN <<seedStr>> ELSE <<>>
  /\ gamePc' = "new"
  /\ pc' = [pc EXCEPT ![page] = "idle"]
  /\ UNCHANGED <<page, genCalls, seedInput, baseDistance, viewModeIdx,
                 followEnabled, built, tick, pending, tickDt, tickStart>>
  /\ UNCHANGED <<now, arg, seedValue, x, sun, numPlanets, countDraw, orbit,
                 maxOrbit, planets, rolls, ret>>
  /\ UNCHANGED <<strVars, smpVars, plVars, hashVars, lineVars, isoVars>>

\* lines 256-262: location.assign with the seed parameter set or deleted: the
\* page is left and loaded again, nothing of the game remains
reloadWithSeed(seedStr) ==
  /\ page + 1 \in Runs
  /\ page' = page + 1
  /\ urlSeed' = IF Len(seedStr) > 0 THEN <<seedStr>> ELSE <<>>
  /\ gamePc' = "new"
  /\ genCalls' = 0
  /\ seedInput' = <<>>
  /\ baseDistance' = 0
  /\ viewModeIdx' = 0
  /\ followEnabled' = FALSE
  /\ built' = 0
  /\ tickDt' = 0
  /\ tickStart' = <<>>
  /\ PlUnload
  /\ UNCHANGED <<tick, pending>>
  /\ UNCHANGED <<strVars, genVars, smpVars, hashVars, lineVars, isoVars>>

\* line 265: click of seed-apply
ApplyClick == Interactive /\ reloadWithSeed(trim(seedInput))

\* line 268: click of seed-random
RandomClick == Interactive /\ reloadWithSeed(NowString(now))

GameNext ==
  \/ GameGenerate
  \/ GameGenerating
  \/ GameBuild
  \/ GameStart
  \/ \E deltaTime \in FrameDeltas : GameTickBegin(deltaTime)
  \/ \E p \in Bodies : GameTickUpdate(p)
  \/ GameTickEnd
  \/ \E code \in {"KeyV", "KeyF"} : KeyDown(code)
  \/ ViewClick
  \/ FollowClick
  \/ ApplyClick
  \/ RandomClick
  \/ Tick /\ UNCHANGED <<strVars, smpVars, plVars, hashVars, lineVars, gameVars, isoVars>>

SpecGame == GameInit /\ [][GameNext]_vars

\* ------------------------------------------------------------------------
\* Planet.createEllipticalOrbitLine(a, e, segments) called directly, beside a
\* planet built with orbitRadius a and eccentricity e
\* ------------------------------------------------------------------------
\* a: 0, 1, 20
LineRadii == { 0, 1000, 20000 }

\* e: -1.5, -0.5, 0, 0.6, 0.95, 1, 1.5, 3
LineEccentricities ==
  { 0 - (3 * (One \div 2)), 0 - (One \div 2), 0, 6 * (One \div 10), EccMax,
    One, 3 * (One \div 2), 3 * One }

LineSegments == { 1, 2, 4 }

LineInit ==
  /\ lineA \in LineRadii
  /\ lineE \in LineEccentricities
  /\ lineSegments \in LineSegments
  /\ linePc = "call"
  /\ lineB = <<0>>
  /\ lineI = 0
  /\ linePositions = <<>>
  /\ \E c2 \in GeneratedArgs :
       Constructed(<<<<lineE, 0, lineA, 500, 800, 0, 0, 0>>, c2>>)
  /\ StrIdle
  /\ GenIdle
  /\ SmpIdle
  /\ HashIdle
  /\ GameIdle
  /\ IsoIdle

\* lines 431-433: b and the empty positions
LineBegin ==
  /\ linePc = "call"
  /\ lineB' = semiMinor(lineA, lineE)
  /\ lineI' = 0
  /\ linePositions' = <<>>
  /\ linePc' = "loop"
  /\ UNCHANGED <<lineA, lineE, lineSegments>>
  /\ UNCHANGED <<strVars, genVars, smpVars, plVars, hashVars, gameVars, isoVars>>

\* lines 435-437: the point of index i
linePoint(a, e, b, i, segments) ==
  Let(mulfix(divfix(i, segments), TwoPi),
      LAMBDA E : <<mulfix(a, cosfix(E) - e), timesNum(b, sinfix(E))>>)

\* lines 434-441: one pass of the loop, or its end
LineSegment ==
  /\ linePc = "loop"
  /\ IF lineI <= lineSegments
       THEN /\ linePositions' =
                 Append(linePositions,
                        linePoint(lineA, lineE, lineB, lineI, lineSegments))
            /\ lineI' = lineI + 1
            /\ linePc' = "loop"
       ELSE /\ linePc' = "done"
            /\ UNCHANGED <<lineI, linePositions>>
  /\ UNCHANGED <<lineA, lineE, lineSegments, lineB>>
  /\ UNCHANGED <<strVars, genVars, smpVars, plVars, hashVars, gameVars, isoVars>>

\* one second
LineDelta == 100000

LineNext ==
  \/ LineBegin
  \/ LineSegment
  \/ Update(1, LineDelta) /\ UNCHANGED <<lineVars, gameVars, isoVars>>

SpecOrbitLine == LineInit /\ [][LineNext]_vars

\* ------------------------------------------------------------------------
\* stringToSeed(str) on strings over a, A, b and e-acute (U+00E9)
\* ------------------------------------------------------------------------
HashAlphabet == {97, 65, 98, 233}

HashStrings == UNION { [1..n -> HashAlphabet] : n \in 0..MaxStrLen }

Reverse(str) == [i \in 1..Len(str) |-> str[(Len(str) + 1) - i]]

\* the code unit with the case of an ASCII letter swapped
SwapCase(c) ==
  IF c \in 97..122 THEN c - 32 ELSE IF c \in 65..90 THEN c + 32 ELSE c

VariantOf(str, v) ==
  IF v = "reversed" THEN Reverse(str)
  ELSE IF v = "swapped" THEN [i \in 1..Len(str) |-> SwapCase(str[i])]
  ELSE str

HashInit ==
  /\ hashStr \in HashStrings
  /\ hashOut = [v \in Variants |-> <<>>]
  /\ StrIdle
  /\ GenIdle
  /\ SmpIdle
  /\ PlIdle
  /\ LineIdle
  /\ GameIdle
  /\ IsoIdle

\* lines 4-11: one call
HashCall(v) ==
  /\ hashOut[v] = <<>>
  /\ hashOut' = [hashOut EXCEPT ![v] = <<stringToSeed(VariantOf(hashStr, v))>>]
  /\ UNCHANGED <<hashStr, strVars, genVars, smpVars, plVars, lineVars, gameVars, isoVars>>

HashNext == \E v \in Variants : HashCall(v)

SpecHash == HashInit /\ [][HashNext]_vars

\* ------------------------------------------------------------------------
\* Properties
\* ------------------------------------------------------------------------
Started(r) == pc[r] \in {"loop", "done"}


\* C1: two independent calls of generateSystem with the same numeric seed
\* return the same description (star, planets in order, maxOrbit, seed)
C1_Determinism ==
  \A r1 \in Runs, r2 \in Runs :
    (Done(r1) /\ Done(r2) /\ arg[r1].t = "number" /\ arg[r2] = arg[r1])
      => Returned(r1) = Returned(r2)

C1_Witness ==
  /\ Done(1) /\ Done(2)
  /\ arg[1] = NumberArg(<<0, 42>>) /\ arg[2] = arg[1]
  /\ Len(Returned(1).planets) = 10
  /\ now = MaxNow

\* C2: a string and its hash, given as a number, produce the same
\* description, seed field included; and the seed field of a returned
\* description, given back as a number, reproduces that description
C2_SeedNormalization ==
  \A r1 \in Runs, r2 \in Runs :
    /\ (Done(r1) /\ Done(r2) /\ arg[r1].t = "string"
          /\ arg[r2] = NumberArg(stringToSeed(arg[r1].s)))
         => Returned(r1) = Returned(r2)
    /\ (Done(r1) /\ Done(r2) /\ arg[r2] = NumberArg(Returned(r1).seed))
         => Returned(r1) = Returned(r2)

C2_Witness ==
  /\ Done(1) /\ Done(2)
  /\ arg[1] = StringArg(<<97, 98, 99>>)
  /\ arg[2] = NumberArg(stringToSeed(<<97, 98, 99>>))
  /\ Returned(2).seed = <<6727, 59659>>

\* C3: the orbit radii of the planets generated so far strictly increase; the
\* first is starRadius * 2.5 plus a gap in [6, 12), and each next one is the
\* previous plus a gap in [6, 12) plus 1.5 times the previous planet's radius
C3_NonCrossingOrbits ==
  \A r \in Runs :
    LET P == planets[r] IN
    /\ \A i \in 1..(Len(P) - 1) :
         /\ P[i].orbitRadius < P[i + 1].orbitRadius
         /\ (P[i + 1].orbitRadius - P[i].orbitRadius) - ((P[i].radius * 3) \div 2)
              \in 6000..11999
    /\ Len(P) >= 1 =>
         /\ P[1].orbitRadius - ((sun[r].radius * 5) \div 2) \in 6000..11999
         /\ orbit[r] > P[Len(P)].orbitRadius

C3_Witness ==
  \E r \in Runs : Done(r) /\ Len(planets[r]) = 10 /\ orbit[r] > 160000

\* draws spread over [0, 1)
GridDraws == { <<4096 * k, 0>> : k \in 0..15 }

\* C4: every generated system has between 4 and 10 planets, the count is
\* floor(draw * 7 + 4), and every count from 4 to 10 comes from some draw
C4_PlanetCount ==
  /\ \A r \in Runs :
       Started(r) =>
         /\ numPlanets[r] \in 4..10
         /\ numPlanets[r] = 4 + MulDraw(7, countDraw[r])
         /\ Len(planets[r]) <= numPlanets[r]
         /\ Done(r) => Len(Returned(r).planets) = numPlanets[r]
  /\ { randInt(d, 4, 10) : d \in GridDraws } = 4..10

C4_Witness ==
  /\ Done(1) /\ Done(2)
  /\ Len(Returned(1).planets) = 4
  /\ Len(Returned(2).planets) = 10

\* C5: the planets at index 0 and 1 are rocky
C5_InnerPlanetsRocky ==
  \A r \in Runs :
    \A i \in 1..Len(planets[r]) : i <= 2 => planets[r][i].planetType = "rocky"

C5_Witness ==
  \E r \in Runs :
    /\ Done(r)
    /\ Returned(r).planets[1].planetType = "rocky"
    /\ Returned(r).planets[2].planetType = "rocky"
    /\ Returned(r).planets[3].planetType = "ice"

\* C6: every value returned by the stream lies in [0, 1), and it is the
\* unsigned reading of the state the call left behind
C6_DrawInUnitInterval ==
  strCount > 0 => InUnit(strOut) /\ strOut = ToUint32(strX)

C6_Witness == strCount = MaxDraws /\ strX[1] < 0

\* C7: a seed whose unsigned 32-bit value is 0 starts the stream at
\* 123456789, and the state of a stream is never 0
C7_NonZeroState ==
  /\ (strCount = 0 /\ ToUint32(strSeed) = Zero => strX = FromInt(DefaultSeed))
  /\ (strCount >= 0 => ToUint32(strX) # Zero)

C7_Witness == strSeed = <<65536, 0>> /\ strCount = MaxDraws

C9_MeanAnomalyWrapped ==
  \A p \in Bodies :
    updates[p] > 0 => (0 <= meanAnomaly[p] /\ meanAnomaly[p] < TwoPi)

\* the planet built with initialAnomaly -1 has been updated twice with
\* deltaSeconds = -14, more than a revolution backward each time
C9_Witness ==
  /\ updates[1] >= 2
  /\ rotationY[1] = 2 * spinStep(rotationSpeed[1], 0 - 1400000)
  /\ eccentricity[1] = 0
  /\ meanAnomaly[1] = wrapAngle(wrapAngle((0 - One) - 700000000) - 700000000)

\* the eccentricities and mean anomalies of the round trip: 0, 0.3, 0.6, 0.9
\* and 0, pi/2, pi, 3pi/2
RoundTripEcc == { 0, 3 * (One \div 10), 6 * (One \div 10), 9 * (One \div 10) }
RoundTripMean == { 0, (Pi + 1) \div 2, Pi, (3 * Pi) \div 2 }

\* 1e-6
KeplerTolerance == One \div 1000000

\* C10: for eccentricity in {0, 0.3, 0.6, 0.9} and mean anomaly in
\* {0, pi/2, pi, 3pi/2}, the E left by the six Newton-Raphson iterations of
\* Planet.update satisfies |E - e sin(E) - M| < 1e-6.
C10_KeplerRoundTrip ==
  \A p \in Bodies :
    (updates[p] > 0 /\ eccentricity[p] \in RoundTripEcc
                    /\ meanAnomaly[p] \in RoundTripMean)
      => Abs(keplerF(eccentricity[p], meanAnomaly[p], eccentricAnomaly[p]))
           < KeplerTolerance

\* eccentricity 0.9 and mean anomaly 0, where the iteration starts at pi and
\* is slowest: E is left above 0 with a residual that is not 0
C10_Witness ==
  /\ updates[1] > 0
  /\ eccentricity[1] = 9 * (One \div 10)
  /\ meanAnomaly[1] = 0
  /\ eccentricAnomaly[1] > 0
  /\ keplerF(eccentricity[1], meanAnomaly[1], eccentricAnomaly[1]) # 0


\* C11: with eccentricity 0 the solver leaves E equal to M in all six
\* iterations, the position set by Planet.update is (a cos M, 0, a sin M),
\* and x^2 + z^2 = a^2 (within three units of a, the rounding of x and z).
C11_CircularOrbit ==
  \A p \in Bodies :
    (updates[p] > 0 /\ eccentricity[p] = 0) =>
      /\ eccentricAnomaly[p] = meanAnomaly[p]
      /\ \A k \in 0..SolverIterations :
           newton(0, meanAnomaly[p], meanAnomaly[p], k) = meanAnomaly[p]
      /\ position[p] = << mulfix(orbitRadius[p], cosfix(meanAnomaly[p])),
                          mulfix(orbitRadius[p], sinfix(meanAnomaly[p])) >>
      /\ Abs(((position[p][1] * position[p][1])
               + (position[p][2] * position[p][2]))
              - (orbitRadius[p] * orbitRadius[p])) <= 3 * orbitRadius[p]

\* a circular orbit away from the axes: x and z are both far from 0
C11_Witness ==
  /\ updates[1] > 0
  /\ eccentricity[1] = 0
  /\ Abs(position[1][1]) > 5000
  /\ Abs(position[1][2]) > 5000

\* the largest orbitRadius of a returned system
LargestOrbitRadius(sys) ==
  CHOOSE m \in { sys.planets[i].orbitRadius : i \in 1..Len(sys.planets) } :
    \A i \in 1..Len(sys.planets) : sys.planets[i].orbitRadius <= m

\* C12: the maxOrbit returned by the generator equals the maximum over the
\* generated planets of their orbitRadius.
C12_MaxOrbitIsLargestRadius ==
  \A r \in Runs :
    Done(r) => Returned(r).maxOrbit = LargestOrbitRadius(Returned(r))

\* planet k of run r, and the draws that decided its features
PlanetAt(r, k) == planets[r][k]
RollsAt(r, k) == rolls[r][k]

\* the draw d is below t / 1000
Below(d, t) == rand(d, 0, 1000) < t

\* C13 as claimed: a planet gets a ring when its ring draw is below 0.40 if
\* it is gas with radius > 1.2, and below 0.15 in every other case; otherwise
\* ring is null.
C13_RingAsClaimed ==
  \A r \in Runs : \A k \in 1..Len(planets[r]) :
    (PlanetAt(r, k).ring # <<>>) <=>
      IF PlanetAt(r, k).planetType = "gas" /\ PlanetAt(r, k).radius > 1200
      THEN Below(RollsAt(r, k).ring, 400)
      ELSE Below(RollsAt(r, k).ring, 150)

\* C13 amended: a planet gets a ring exactly when its ring draw is below its
\* chance (0.40 for gas, 0.15 otherwise) and its radius is above 1.2;
\* otherwise ring is null.
C13_RingThreshold ==
  \A r \in Runs : \A k \in 1..Len(planets[r]) :
    (PlanetAt(r, k).ring # <<>>) <=>
      /\ Below(RollsAt(r, k).ring,
               IF PlanetAt(r, k).planetType = "gas" THEN 400 ELSE 150)
      /\ PlanetAt(r, k).radius > 1200

\* a planet that is not gas, of radius at most 1.2, whose ring draw is below
\* 0.15 and that has no ring
C13_Witness ==
  \E r \in Runs : \E k \in 1..Len(planets[r]) :
    /\ Done(r)
    /\ PlanetAt(r, k).planetType # "gas"
    /\ PlanetAt(r, k).radius <= 1200
    /\ Below(RollsAt(r, k).ring, 150)
    /\ PlanetAt(r, k).ring = <<>>

\* C14: every gas planet has an atmosphere, a rocky planet has one exactly
\* when its atmosphere draw is below 0.3, and an ice planet never has one.
C14_AtmospherePresence ==
  \A r \in Runs : \A k \in 1..Len(planets[r]) :
    /\ PlanetAt(r, k).planetType = "gas" => PlanetAt(r, k).atmosphere # <<>>
    /\ PlanetAt(r, k).planetType = "rocky" =>
         /\ RollsAt(r, k).atm # NoDraw
         /\ (PlanetAt(r, k).atmosphere # <<>>) <=> Below(RollsAt(r, k).atm, 300)
    /\ PlanetAt(r, k).planetType = "ice" => PlanetAt(r, k).atmosphere = <<>>

\* a returned system with a gas planet, an ice planet, a rocky planet with an
\* atmosphere and a rocky planet without one
C14_Witness ==
  \E r \in Runs : \E g, c, a, b \in 1..Len(planets[r]) :
    /\ Done(r)
    /\ PlanetAt(r, g).planetType = "gas" /\ PlanetAt(r, g).atmosphere # <<>>
    /\ PlanetAt(r, c).planetType = "ice" /\ PlanetAt(r, c).atmosphere = <<>>
    /\ PlanetAt(r, a).planetType = "rocky" /\ PlanetAt(r, a).atmosphere # <<>>
    /\ PlanetAt(r, b).planetType = "rocky" /\ PlanetAt(r, b).atmosphere = <<>>

\* the part of the draws of GridDraws on which planet i gets the type t
TypeShare(i, t) == Cardinality({ d \in GridDraws : planetTypeOf(i, d) = t })

\* C15 as claimed: at index 2 and 3 the type draw is weighted toward ice (ice
\* on more than half of the draw interval, never gas); at index >= 4 the type
\* is gas when the type draw is below 0.6 and ice otherwise, never rocky.
C15_BandingAsClaimed ==
  \A r \in Runs : \A k \in 3..Len(planets[r]) :
    IF k <= 4
    THEN /\ PlanetAt(r, k).planetType # "gas"
         /\ 2 * TypeShare(k - 1, "ice") > Cardinality(GridDraws)
    ELSE PlanetAt(r, k).planetType =
           IF Below(RollsAt(r, k).type, 600) THEN "gas" ELSE "ice"

\* C15 amended: at index 2 and 3 the type is ice when the type draw is below
\* 0.3 and rocky otherwise (ice on less than half of the draw interval, never
\* gas); at index >= 4 the type is gas when the type draw is below 0.6 and ice
\* otherwise, never rocky.
C15_TypeBanding ==
  \A r \in Runs : \A k \in 3..Len(planets[r]) :
    IF k <= 4
    THEN /\ PlanetAt(r, k).planetType =
              IF Below(RollsAt(r, k).type, 300) THEN "ice" ELSE "rocky"
         /\ 2 * TypeShare(k - 1, "ice") < Cardinality(GridDraws)
         /\ TypeShare(k - 1, "gas") = 0
    ELSE /\ PlanetAt(r, k).planetType =
              IF Below(RollsAt(r, k).type, 600) THEN "gas" ELSE "ice"
         /\ TypeShare(k - 1, "rocky") = 0

\* returned systems with, at index 2 or 3, an ice planet and a rocky planet
\* whose type draw is below 0.5, and with outer planets of both kinds
C15_Witness ==
  /\ \A r \in Runs : Done(r)
  /\ \E r \in Runs : \E a \in 3..4 : PlanetAt(r, a).planetType = "ice"
  /\ \E r \in Runs : \E b \in 3..4 :
       /\ PlanetAt(r, b).planetType = "rocky"
       /\ Below(RollsAt(r, b).type, 500)
  /\ \E r \in Runs : \E g, c \in 5..Len(planets[r]) :
       /\ PlanetAt(r, g).planetType = "gas"
       /\ PlanetAt(r, c).planetType = "ice"


\* ---- the FNV-1a fold on unsigned 32-bit words, by shift and add ----
\* a + b modulo 2^32
AddU(a, b) ==
  <<(a[1] + b[1] + ((a[2] + b[2]) \div Half)) % Half, (a[2] + b[2]) % Half>>

\* a * 2^n modulo 2^32
RECURSIVE ShlU(_, _)
ShlU(a, n) == IF n = 0 THEN a ELSE Let(AddU(a, a), LAMBDA d : ShlU(d, n - 1))

\* a * 16777619 modulo 2^32: 16777619 = 2^24 + 2^8 + 2^7 + 2^4 + 2^1 + 2^0
RefTimesPrime(a) ==
  Let(<<a, ShlU(a, 1), ShlU(a, 4), ShlU(a, 7), ShlU(a, 8), ShlU(a, 24)>>,
      LAMBDA t : AddU(t[1], AddU(t[2], AddU(t[3], AddU(t[4], AddU(t[5], t[6]))))))

\* h = 2166136261; for each element c of units: h = (h XOR c) * 16777619
RECURSIVE RefFold(_, _, _)
RefFold(h, units, i) ==
  IF i > Len(units) THEN h
  ELSE Let(RefTimesPrime(<<h[1], XorBits(h[2], units[i])>>),
           LAMBDA n : RefFold(n, units, i + 1))

RefFnv1a(units) == RefFold(<<FnvOffsetHi, FnvOffsetLo>>, units, 1)

\* the UTF-8 bytes of a code unit below the surrogates, and of a string
Utf8Unit(c) ==
  IF c < 128 THEN <<c>>
  ELSE IF c < 2048 THEN <<192 + (c \div 64), 128 + (c % 64)>>
  ELSE <<224 + (c \div 4096), 128 + ((c \div 64) % 64), 128 + (c % 64)>>

RECURSIVE Utf8(_)
Utf8(str) == IF str = <<>> THEN <<>> ELSE Utf8Unit(Head(str)) \o Utf8(Tail(str))

HashDone(v) == hashOut[v] # <<>>

\* the result is an integer in [0, 2^32); strings that differ in the case or
\* in the order of their characters have different hashes
HashRangeAndSensitivity ==
  /\ \A v \in Variants :
       HashDone(v) => (hashOut[v][1][1] \in 0..(Half - 1)
                       /\ hashOut[v][1][2] \in 0..(Half - 1))
  /\ \A v \in {"reversed", "swapped"} :
       (HashDone("same") /\ HashDone(v) /\ VariantOf(hashStr, v) # hashStr)
         => hashOut[v] # hashOut["same"]

\* C16 as claimed: stringToSeed(s) is the FNV-1a fold over the bytes of s
\* (h = 2166136261; h = (h XOR byte) * 16777619 mod 2^32) for every string,
\* an integer in [0, 2^32), case-sensitive and order-sensitive.
C16_FoldOverBytes ==
  /\ \A v \in Variants :
       HashDone(v) => hashOut[v][1] = RefFnv1a(Utf8(VariantOf(hashStr, v)))
  /\ HashRangeAndSensitivity

\* C16 amended: stringToSeed(s) is that fold over the UTF-16 code units of s,
\* which are the bytes of s when every character is ASCII; an integer in
\* [0, 2^32), case-sensitive and order-sensitive.
C16_FoldOverCodeUnits ==
  /\ \A v \in Variants :
       HashDone(v) =>
         /\ hashOut[v][1] = RefFnv1a(VariantOf(hashStr, v))
         /\ (\A i \in 1..Len(hashStr) : hashStr[i] < 128)
              => hashOut[v][1] = RefFnv1a(Utf8(VariantOf(hashStr, v)))
  /\ HashRangeAndSensitivity

\* "a" followed by e-acute, hashed with its reverse and its case swap: the
\* hash is 2^31 or more and is not the fold over the three UTF-8 bytes
C16_Witness ==
  /\ hashStr = <<97, 233>>
  /\ \A v \in Variants : HashDone(v)
  /\ hashOut["same"][1][1] >= 32768
  /\ hashOut["same"][1] # RefFnv1a(Utf8(hashStr))


\* ---- xorshift32 on unsigned 32-bit words ----
XorU(a, b) == <<XorBits(a[1], b[1]), XorBits(a[2], b[2])>>

\* x ^= x << 13; x ^= x >>> 17; x ^= x << 5, each masked to 32 bits
RefXorshift(u) ==
  Let(XorU(u, ShlU(u, 13)), LAMBDA a :
    Let(XorU(a, <<0, a[1] \div 2>>), LAMBDA b :
      XorU(b, ShlU(b, 5))))

\* the unsigned state after n draws
RECURSIVE RefState(_, _)
RefState(u, n) ==
  IF n = 0 THEN u ELSE Let(RefXorshift(u), LAMBDA w : RefState(w, n - 1))

\* C17: for every seed and every draw index the value the stream returns is
\* the one reference xorshift32 on unsigned 32-bit words returns, although x
\* is kept as a signed word between draws.  (The copies of makeRng in
\* Stars.js and StarClusters.js have the same text as the one modelled.)
C17_MatchesReference ==
  strCount > 0 =>
    /\ strOut = RefState(makeRng(strSeed), strCount)
    /\ ToUint32(strX) = strOut
    /\ ToInt32(strX) = strX

\* the seed 2^31 after several draws, the last one leaving x negative
C17_Witness ==
  /\ strSeed = <<32768, 0>>
  /\ strCount > 2
  /\ strX[1] < 0
  /\ strOut[1] >= 32768

\* C18: for every eccentricity passed to the constructor, the stored
\* eccentricity used by every later update lies in [0, 0.95], and update
\* never changes it.
C18_EccentricityClamped ==
  /\ [](\A p \in Bodies :
          updates[p] >= 0 => (0 <= eccentricity[p] /\ eccentricity[p] <= EccMax))
  /\ [][\A p \in Bodies : eccentricity'[p] = eccentricity[p]]_vars

\* the planets built with eccentricity 1.5 and with eccentricity -0.5, after
\* updates: 0.95 and 0 are stored
C18_Witness ==
  /\ updates[1] >= 2
  /\ eccentricity[1] \in {0, EccMax}
  /\ meanAnomaly[1] # 0
  /\ position[1][2] # 0

\* C19: the semi-minor axis b = a * sqrt(max(0, 1 - e * e)) is never NaN and
\* lies in [0, a], in update and in createEllipticalOrbitLine, for every
\* a >= 0 and every eccentricity, e > 1 passed directly included.
C19_SemiMinorDefined ==
  /\ linePc \in {"loop", "done"} =>
       /\ lineB # NaN
       /\ 0 <= lineB[1] /\ lineB[1] <= lineA
       /\ \A k \in 1..Len(linePositions) : linePositions[k][2] # NaN
  /\ \A p \in Bodies :
       updates[p] > 0 =>
         /\ semiMinorAxis[p] # NaN
         /\ 0 <= semiMinorAxis[p][1] /\ semiMinorAxis[p][1] <= orbitRadius[p]

\* the line for a = 20 and e = 1.5 is complete, with b = 0, and the planet
\* built with the same values has been updated, with b > 0
C19_Witness ==
  /\ linePc = "done"
  /\ lineA = 20000
  /\ lineE > One
  /\ lineB = <<0>>
  /\ Len(linePositions) = lineSegments + 1
  /\ updates[1] > 0
  /\ semiMinorAxis[1][1] > 0
  /\ semiMinorAxis[1][1] < orbitRadius[1]

\* C20: the scene chain is pivot > orbitGroup (rotation.y = ascendingNode) >
\* inclinationGroup (rotation.x = inclination) > periapsisGroup (rotation.y =
\* argPeriapsis) > bodyGroup, and update never changes these rotations or the
\* chain.
C20_OrientationOrder ==
  /\ [](\A p \in Bodies :
          updates[p] >= 0 =>
            /\ scene[p]["pivot"].parent = "none"
            /\ scene[p]["orbitGroup"] =
                 [parent |-> "pivot", x |-> 0, y |-> ascendingNode[p]]
            /\ scene[p]["inclinationGroup"] =
                 [parent |-> "orbitGroup", x |-> inclination[p], y |-> 0]
            /\ scene[p]["periapsisGroup"] =
                 [parent |-> "inclinationGroup", x |-> 0, y |-> argPeriapsis[p]]
            /\ scene[p]["bodyGroup"].parent = "periapsisGroup")
  /\ [][/\ scene' = scene
        /\ inclination' = inclination
        /\ ascendingNode' = ascendingNode
        /\ argPeriapsis' = argPeriapsis]_vars

\* the planet with inclination -0.1, ascendingNode 1 and argPeriapsis 2 has
\* moved along its orbit
C20_Witness ==
  /\ updates[2] >= 2
  /\ inclination[2] # 0
  /\ ascendingNode[2] # argPeriapsis[2]
  /\ scene[2]["inclinationGroup"].x = inclination[2]
  /\ position[2] # <<0, 0>>


\* a number <<hi, lo>> that is a 32-bit unsigned integer
IsUint32(n) == n[1] \in 0..(Half - 1) /\ n[2] \in 0..(Half - 1)

\* C25: the seed field of every returned description lies in [0, 2^32), and
\* two returned descriptions with different seed fields never have the same
\* star and planets.
C25_SeedFieldIsUint32 ==
  /\ \A r \in Runs : Done(r) => IsUint32(Returned(r).seed)
  /\ \A r1 \in Runs, r2 \in Runs :
       (Done(r1) /\ Done(r2) /\ Returned(r1).seed # Returned(r2).seed)
         => ~(/\ Returned(r1).sun = Returned(r2).sun
              /\ Returned(r1).planets = Returned(r2).planets)

\* C27: for every adjacent pair of generated planets the elliptical paths do
\* not cross: orbitRadius[i] * (1 + e[i]) < orbitRadius[i+1] * (1 - e[i+1]).
C27_NoEllipseCrossing ==
  \A r \in Runs :
    \A i \in 1..(Len(planets[r]) - 1) :
      planets[r][i].orbitRadius * (1000 + planets[r][i].eccentricity)
        < planets[r][i + 1].orbitRadius * (1000 - planets[r][i + 1].eccentricity)

\* C21: whatever the order in which the planets of one tick are updated,
\* every planet already updated has the meanAnomaly, position and spin that
\* follow from its own state at the start of the tick, and every planet not
\* yet updated still has that state.
C21_OrderInsensitive ==
  \A p \in Bodies :
    tickStart # <<>> =>
      IF p \in pending
      THEN /\ meanAnomaly[p] = tickStart.meanAnomaly[p]
           /\ position[p] = tickStart.position[p]
           /\ rotationY[p] = tickStart.rotationY[p]
      ELSE Let(wrapAngle(tickStart.meanAnomaly[p] + (orbitSpeed[p] * tickDt)),
               LAMBDA M :
                 /\ meanAnomaly[p] = M
                 /\ position[p] =
                      bodyPosition(orbitRadius[p], eccentricity[p],
                                   solveKepler(eccentricity[p], M))
                 /\ rotationY[p] =
                      tickStart.rotationY[p] + spinStep(rotationSpeed[p], tickDt))

\* the second planet has been updated before the first, in a tick that moves
\* both
C21_Witness ==
  /\ tick = "updating"
  /\ pending = {1}
  /\ tickDt > 0
  /\ meanAnomaly[2] # tickStart.meanAnomaly[2]
  /\ rotationY[2] # tickStart.rotationY[2]

\* C22: however the steps of two calls of generateSystem interleave, the
\* stream of each call is in the state a stream made from the call's seed
\* reaches when it makes the same draws alone; and two calls that resolved the
\* same seed return the same description.
C22_StreamIsolation ==
  /\ \A r \in Runs : pc[r] # "idle" => x[r] = alone[r]
  /\ \A r1 \in Runs, r2 \in Runs :
       (Done(r1) /\ Done(r2) /\ seedValue[r1] = seedValue[r2])
         => Returned(r1) = Returned(r2)

\* the two calls are in their loops at once, on different seeds, each with
\* planets generated
C22_Witness ==
  /\ pc[1] = "loop" /\ pc[2] = "loop"
  /\ seedValue[1] # seedValue[2]
  /\ Len(planets[1]) >= 2
  /\ Len(planets[2]) >= 3
  /\ x[1] # x[2]


\* C23: generation precedes propagation: generateSystem is called once in
\* a page, it has returned and every planet is built before the first
\* Planet.update of a tick, and no step of the constructed page (tick, key,
\* view or follow toggle) generates again while the page stays
C23_GenerationPrecedes ==
  /\ [](genCalls <= 1)
  /\ [](gamePc \in {"ready", "running"} => genCalls = 1)
  /\ []((tick = "updating" \/ \E p \in Bodies : updates[p] > 0)
          => /\ gamePc = "running"
             /\ Done(page)
             /\ built = Len(Returned(page).planets)
             /\ \A p \in Bodies : updates[p] >= 0)
  /\ [][(page' = page /\ gamePc \in {"ready", "running"})
          => /\ genCalls' = genCalls
             /\ pc' = pc /\ ret' = ret /\ planets' = planets /\ x' = x
             /\ built' = built]_vars

C23_Witness ==
  /\ gamePc = "running" /\ tick = "idle"
  /\ updates[1] > 0 /\ updates[2] > 0
  /\ viewModeIdx = 0 /\ followEnabled
  /\ genCalls = 1

\* C24: the seed shown in the seed field, applied again as the seed
\* parameter of the URL, generates the star system that was shown
C24_SeedRoundTrip ==
  (/\ page = 2 /\ Done(1) /\ Done(2)
   /\ urlSeed = <<NumberToString(Returned(1).seed)>>)
    => /\ Returned(2).sun = Returned(1).sun
       /\ Returned(2).planets = Returned(1).planets
       /\ Returned(2).maxOrbit = Returned(1).maxOrbit

\* C28: a generated planet has eccentricity in [0, 0.35], inclination in
\* [-0.22, 0.22] and its three angles in [0, 2 pi); for the planets built
\* from it the clamp of the constructor changes nothing, the mean anomaly is
\* in [0, 2 pi) from the construction on, and the solver starts from M
C28_GeneratedRanges ==
  /\ \A r \in Runs : \A i \in 1..Len(planets[r]) :
       /\ planets[r][i].eccentricity \in 0..350
       /\ planets[r][i].inclination \in (0 - 220)..220
       /\ planets[r][i].ascendingNode \in 0..TwoPiMilli
       /\ planets[r][i].argPeriapsis \in 0..TwoPiMilli
       /\ planets[r][i].initialAnomaly \in 0..TwoPiMilli
       /\ planets[r][i].initialAnomaly * 100000 < TwoPi
       /\ planets[r][i].ascendingNode * 100000 < TwoPi
       /\ planets[r][i].argPeriapsis * 100000 < TwoPi
  /\ gamePc \in {"ready", "running"} =>
       \A p \in Bodies :
         /\ eccentricity[p] = planetArgs(Returned(page).planets[p])[1]
         /\ meanAnomaly[p] \in 0..(TwoPi - 1)
         /\ initialGuess(eccentricity[p], meanAnomaly[p]) = meanAnomaly[p]

C28_Witness ==
  /\ gamePc = "running" /\ tick = "updating"
  /\ updates[1] > 0
  /\ updates[2] = 0
  /\ eccentricity[1] > One \div 10
  /\ Len(planets[page]) >= 6

\* C30: the returned maxOrbit is beyond the orbit radius plus the body
\* radius of every generated planet, and so is the base distance of the
\* camera, max(60, maxOrbit + 20)
C30_MaxOrbitOuterBound ==
  /\ \A r \in Runs : Done(r) =>
       \A i \in 1..Len(Returned(r).planets) :
         Returned(r).maxOrbit
           > Returned(r).planets[i].orbitRadius + Returned(r).planets[i].radius
  /\ gamePc \in {"ready", "running"} =>
       /\ baseDistance = Max(60000, Returned(page).maxOrbit + 20000)
       /\ \A i \in 1..Len(Returned(page).planets) :
            baseDistance
              > Returned(page).planets[i].orbitRadius + Returned(page).planets[i].radius

C30_Witness ==
  /\ gamePc = "ready"
  /\ baseDistance > 60000
  /\ Len(Returned(page).planets) >= 6
  /\ \E i \in 1..Len(Returned(page).planets) :
       Returned(page).planets[i].orbitRadius + Returned(page).planets[i].radius
         > 60000

\* what update(dt) of planet p leaves alone, and the growth of the spin by
\* rotationSpeed * dt (1e-5 rad, to the unit)
UpdateFrame(p, dt) ==
  /\ orbitRadius' = orbitRadius /\ orbitSpeed' = orbitSpeed
  /\ rotationSpeed' = rotationSpeed /\ eccentricity' = eccentricity
  /\ inclination' = inclination /\ ascendingNode' = ascendingNode
  /\ argPeriapsis' = argPeriapsis /\ scene' = scene
  /\ \A q \in Bodies \ {p} :
       /\ meanAnomaly'[q] = meanAnomaly[q]
       /\ position'[q] = position[q]
       /\ rotationY'[q] = rotationY[q]
  /\ Abs(((rotationY'[p] - rotationY[p]) * 1000) - (rotationSpeed[p] * dt)) < 1000

\* the step is update(dt) of planet p; the count and the mean anomaly are
\* compared first, the whole of Update after them
IsUpdate(p, dt) ==
  /\ updates'[p] = updates[p] + 1
  /\ meanAnomaly'[p] = wrapAngle(meanAnomaly[p] + (orbitSpeed[p] * dt))
  /\ Update(p, dt)

AnomalyGrid == { k * (Pi \div 8) : k \in (0 - 16)..16 }

\* 0.05
DenominatorFloor == One \div 20

\* C29: the denominator 1 - e cos(E) of the Newton-Raphson step is at
\* least 0.05 in each of the 6 passes of every update, and for the stored
\* eccentricity at every value of E; the position that results is a number
\* within the orbit
C29_DenominatorBound ==
  \A p \in Bodies :
    /\ updates[p] >= 0 =>
         \A E \in AnomalyGrid : keplerF1(eccentricity[p], E) >= DenominatorFloor
    /\ updates[p] > 0 =>
         \E d \in { denominators(eccentricity[p], meanAnomaly[p],
                                 initialGuess(eccentricity[p], meanAnomaly[p]), 0) } :
           /\ Len(d) = SolverIterations
           /\ \A i \in 1..Len(d) : d[i] >= DenominatorFloor
           /\ semiMinorAxis[p] # NaN
           /\ Abs(position[p][1]) <= 2 * orbitRadius[p]
           /\ Abs(position[p][2]) <= orbitRadius[p]

C29_Witness ==
  /\ updates[1] > 0
  /\ eccentricity[1] = EccMax
  /\ keplerF1(eccentricity[1], 0) = DenominatorFloor
  /\ \E d \in { denominators(eccentricity[1], meanAnomaly[1],
                             initialGuess(eccentricity[1], meanAnomaly[1]), 0) } :
       \E i \in 1..Len(d) : d[i] < One \div 2
====
